---- MODULE Spec2Model ----
(***************************************************************************)
(* Verification model of the dungeon-shooter programs of this repository:  *)
(*   src/unnamed/part_000              suffix _p0  (cached rooms, shop)    *)
(*   src/n.js                          suffix _js  (keys, treasure rooms)  *)
(*   src/n.mjs                         suffix _mjs (no room cache, bosses) *)
(*   src/unnamed/part_001 l.1-2308     suffix _fr  (floor graph, items)    *)
(*   src/unnamed/part_001 l.2310-3762  suffix _p1  (heal / armory rooms)   *)
(* Each program has its own specification (Spec_p0, Spec_js, ...) over the *)
(* same variables, which carry the source's objects `state`, `player` and  *)
(* `WEAPONS`.  An operator without a suffix models code that is textually  *)
(* the same in the programs that use it.                                   *)
(*                                                                         *)
(* Units.  Positions are whole pixels.  One model tick is one call of      *)
(* update(dt); velocities are kept as pixels per tick (v * dt).  Timers    *)
(* count ticks and saturate at TimerTicks.  Circle sample points are kept  *)
(* in 1/1000 pixel so that the tile lookup truncates as the source does.   *)
(***************************************************************************)
EXTENDS Integers, Sequences, FiniteSets, TLC

VARIABLES state, player, WEAPONS, ev

vars == <<state, player, WEAPONS, ev>>

(***************************************************************************)
(* Bounds of the model (not program constants).                            *)
(***************************************************************************)
\* Rooms are linked up to this Manhattan distance (the source's MAX_DEPTH is
\* 10 in part_000 / part_001 and 40 in n.mjs).
MaxDepth == 2

\* Room transitions explored per run.
MaxMoves == 2

\* Every timer (invT, fireCD, shakeT, bullet life) lasts at most this many ticks.
TimerTicks == 1

\* Bullets in flight at once.
MaxBullets == 1

(***************************************************************************)
(* Math helpers                                                            *)
(***************************************************************************)
abs(a) == IF a < 0 THEN -a ELSE a

clamp(v, a, b) == IF v < a THEN a ELSE (IF v > b THEN b ELSE v)

\* (a / b) | 0 : JavaScript's conversion to int32 truncates toward zero.
toInt(a, b) == IF a >= 0 THEN a \div b ELSE -((-a) \div b)

dist2(ax, ay, bx, by) == (ax - bx) * (ax - bx) + (ay - by) * (ay - by)

Dirs == {"N", "S", "W", "E"}

dxOf(dir) == IF dir = "W" THEN -1 ELSE IF dir = "E" THEN 1 ELSE 0

dyOf(dir) == IF dir = "N" THEN -1 ELSE IF dir = "S" THEN 1 ELSE 0

opposite(dir) == CASE dir = "N" -> "S" [] dir = "S" -> "N" [] dir = "W" -> "E" [] OTHER -> "W"

\* roomKey(x, y): room ids are the coordinate pair itself.
roomKey(x, y) == <<x, y>>

allDoors(b) == [d \in Dirs |-> b]

(***************************************************************************)
(* Geometry of part_000.  A geometry record G also carries the player's    *)
(* radius, the distance from the wall at which a transition places the     *)
(* player, the sample directions of collideCircle and the pillar radius    *)
(* (in 1/1000 tile).                                                       *)
(***************************************************************************)
\* cos and sin of (i / 12) * TAU, i = 0..11, in 1/1000.
COS12 == <<1000, 866, 500, 0, -500, -866, -1000, -866, -500, 0, 500, 866>>

SIN12 == <<0, 500, 866, 1000, 866, 500, 0, -500, -866, -1000, -866, -500>>

TILE == 24
ROOM_TW == 21
ROOM_TH == 13
ROOM_W == ROOM_TW * TILE
ROOM_H == ROOM_TH * TILE
DOOR_SPAN == 26
DOOR_THICK == 18

G_p0 == [TILE |-> TILE, ROOM_TW |-> ROOM_TW, ROOM_TH |-> ROOM_TH,
         ROOM_W |-> ROOM_W, ROOM_H |-> ROOM_H,
         DOOR_SPAN |-> DOOR_SPAN, DOOR_THICK |-> DOOR_THICK,
         r |-> 8, inset |-> 18, cos |-> COS12, sin |-> SIN12, pillar |-> 280]

\* Tile of a generated grid g = [pits, pillars, doors]: 0 wall, 1 floor, 2 pit,
\* 3 door marker, 4 pillar.  Later writes of genRoomTiles win.
tileAt(G, g, tx, ty) ==
  LET mx == G.ROOM_TW \div 2
      my == G.ROOM_TH \div 2
      edge == tx = 0 \/ ty = 0 \/ tx = G.ROOM_TW - 1 \/ ty = G.ROOM_TH - 1
  IN  IF "N" \in g.doors /\ tx = mx /\ ty \in {0, 1} THEN (IF ty = 0 THEN 1 ELSE 3)
      ELSE IF "S" \in g.doors /\ tx = mx /\ ty \in {G.ROOM_TH - 1, G.ROOM_TH - 2}
        THEN (IF ty = G.ROOM_TH - 1 THEN 1 ELSE 3)
      ELSE IF "W" \in g.doors /\ ty = my /\ tx \in {0, 1} THEN (IF tx = 0 THEN 1 ELSE 3)
      ELSE IF "E" \in g.doors /\ ty = my /\ tx \in {G.ROOM_TW - 1, G.ROOM_TW - 2}
        THEN (IF tx = G.ROOM_TW - 1 THEN 1 ELSE 3)
      ELSE IF abs(tx - mx) <= 1 /\ abs(ty - my) <= 1 THEN 1
      ELSE IF <<tx, ty>> \in g.pillars /\ ~edge /\ <<tx, ty>> \notin g.pits THEN 4
      ELSE IF <<tx, ty>> \in g.pits /\ ~edge THEN 2
      ELSE IF edge THEN 0 ELSE 1

\* isSolidAtPoint(wx, wy, room), wx and wy in 1/1000 pixel.
isSolidAtPoint(G, wx, wy, g) ==
  LET tx == toInt(wx, G.TILE * 1000)
      ty == toInt(wy, G.TILE * 1000)
  IN  IF tx < 0 \/ ty < 0 \/ tx >= G.ROOM_TW \/ ty >= G.ROOM_TH THEN TRUE
      ELSE LET t == tileAt(G, g, tx, ty)
               cx == tx * G.TILE * 1000 + G.TILE * 500
               cy == ty * G.TILE * 1000 + G.TILE * 500
               rad == G.TILE * G.pillar
           IN  IF t = 0 \/ t = 2 THEN TRUE
               ELSE IF t = 4 THEN dist2(wx, wy, cx, cy) <= rad * rad
               ELSE FALSE

\* collideCircle(x, y, r, room): sample points on the circle.
collideCircle(G, x, y, r, g) ==
  \E i \in 1..Len(G.cos) :
    isSolidAtPoint(G, x * 1000 + G.cos[i] * r, y * 1000 + G.sin[i] * r, g)

\* inDoorBand(dir, x, y)
inDoorBand(G, dir, x, y) ==
  LET cx == G.ROOM_W \div 2
      cy == G.ROOM_H \div 2
  IN  CASE dir = "N" -> abs(x - cx) <= G.DOOR_SPAN /\ y <= G.DOOR_THICK
        [] dir = "S" -> abs(x - cx) <= G.DOOR_SPAN /\ y >= G.ROOM_H - G.DOOR_THICK
        [] dir = "W" -> abs(y - cy) <= G.DOOR_SPAN /\ x <= G.DOOR_THICK
        [] OTHER     -> abs(y - cy) <= G.DOOR_SPAN /\ x >= G.ROOM_W - G.DOOR_THICK

(***************************************************************************)
(* Room graph and room data of part_000.  A world w is the record          *)
(* [state, player, WEAPONS, ev] that the source's functions read and       *)
(* write; each operator returns the world after the call.  `rnd` carries   *)
(* the outcomes of the Math.random() draws the call makes.                 *)
(***************************************************************************)
\* ensureNode(id)
ensureNode_p0(w, id) ==
  IF id \in DOMAIN w.state.map THEN w
  ELSE [w EXCEPT !.state.map = @ @@ (id :>
          [x |-> id[1], y |-> id[2], depth |-> abs(id[1]) + abs(id[2]),
           kind |-> "combat", seen |-> FALSE, cleared |-> FALSE, locked |-> FALSE])]

\* ensureRoom(id): g and __cache start as null (the empty sequence).
ensureRoom(w, id) ==
  IF id \in DOMAIN w.state.rooms THEN w
  ELSE [w EXCEPT !.state.rooms = @ @@ (id :>
          [g |-> <<>>, doorsOpen |-> allDoors(TRUE), neighbors |-> allDoors(FALSE),
           cache |-> <<>>])]

\* isShopCoord(x, y)
isShopCoord(x, y) ==
  LET d == abs(x) + abs(y)
      m == d % 4
  IN  IF d < 1 THEN FALSE
      ELSE IF m = 0 THEN x = d /\ y = 0
      ELSE IF m = 1 THEN x = 0 /\ y = d
      ELSE IF m = 2 THEN x = -d /\ y = 0
      ELSE x = 0 /\ y = -d

\* The tile a random pillar lands on when rnd.pillar is drawn.
PillarTile == <<4, 3>>

\* genRoomTiles(node): a fresh random grid on every call; doors are carved
\* where the room has neighbours at the time of the call.  The decor tiles
\* n.mjs puts into peaceful rooms are floor to the collision code.
genRoomTiles(w, id, rnd) ==
  [w EXCEPT !.state.rooms[id].g =
     <<[pits |-> {},
        pillars |-> IF rnd.pillar THEN {PillarTile} ELSE {},
        doors |-> {d \in Dirs : w.state.rooms[id].neighbors[d]}]>>]

\* link(nx, ny, dirA, dirB) without the MAX_DEPTH test.
linkAnyDepth(w, id, dir) ==
  LET nid == roomKey(id[1] + dxOf(dir), id[2] + dyOf(dir))
      w1 == [w EXCEPT !.state.rooms[id].neighbors[dir] = TRUE]
      w2 == ensureRoom(ensureNode_p0(w1, nid), nid)
  IN  [w2 EXCEPT !.state.rooms[nid].neighbors[opposite(dir)] = TRUE]

\* A link that sets the flag of the one room only.
linkOneWay(w, id, dir) ==
  LET nid == roomKey(id[1] + dxOf(dir), id[2] + dyOf(dir))
  IN  IF abs(nid[1]) + abs(nid[2]) > MaxDepth THEN w
      ELSE ensureRoom(ensureNode_p0([w EXCEPT !.state.rooms[id].neighbors[dir] = TRUE], nid), nid)

\* link(nx, ny, dirA, dirB) of buildNeighborsAround
link_p0(w, id, dir) ==
  LET nid == roomKey(id[1] + dxOf(dir), id[2] + dyOf(dir))
  IN  IF abs(nid[1]) + abs(nid[2]) > MaxDepth THEN w
      ELSE LET w1 == [w EXCEPT !.state.rooms[id].neighbors[dir] = TRUE]
               w2 == ensureRoom(ensureNode_p0(w1, nid), nid)
           IN  [w2 EXCEPT !.state.rooms[nid].neighbors[opposite(dir)] = TRUE]

\* buildNeighborsAround(id)
buildNeighborsAround_p0(w, id, rnd) ==
  LET w0 == ensureRoom(ensureNode_p0(w, id), id)
  IN  genRoomTiles(link_p0(link_p0(link_p0(link_p0(w0, id, "N"), id, "S"), id, "W"), id, "E"),
                      id, rnd)

\* lockDoors(room, locked): all four flags, whatever room.neighbors says.
lockDoors(w, id, locked) ==
  [w EXCEPT !.state.rooms[id].doorsOpen = allDoors(~locked)]

\* Where the i-th enemy of a room is spawned (one outcome of the random
\* px in [60, ROOM_W - 60], py in [60, ROOM_H - 60]).
EnemySlots == <<<<240, 156>>>>

\* spawnEnemy(type, x, y, depth)
spawnEnemy_p0(w, type, x, y, depth) ==
  [w EXCEPT !.state.enemies = Append(@,
     [type |-> type, x |-> x, y |-> y, r |-> 10,
      hp |-> (IF type = "shooter" THEN 6 ELSE 5) + toInt(depth, 3),
      home |-> w.state.roomId])]

RECURSIVE spawnLoop_p0(_, _, _, _, _)
\* for (i = 0; i < n; i++) spawnEnemy(chance(0.25) ? "shooter" : "chaser", ...)
spawnLoop_p0(w, i, n, depth, rnd) ==
  IF i >= n THEN w
  ELSE LET slot == EnemySlots[(i % Len(EnemySlots)) + 1]
           type == IF i = 0 /\ rnd.shooter THEN "shooter" ELSE "chaser"
       IN  spawnLoop_p0(spawnEnemy_p0(w, type, slot[1], slot[2], depth), i + 1, n, depth, rnd)

\* spawnRoomContents(roomId)
spawnRoomContents_p0(w, id, rnd) ==
  LET kind == IF id = <<0, 0>> THEN "start"
              ELSE IF isShopCoord(id[1], id[2]) THEN "shop" ELSE "combat"
      populate(w1) ==
        IF kind = "shop" \/ kind = "start"
        THEN [lockDoors([w1 EXCEPT !.state.map[id].cleared = TRUE], id, FALSE)
                EXCEPT !.state.pickups =
                  IF kind = "start"
                  THEN Append(@, [x |-> ROOM_W \div 2 + 44, y |-> ROOM_H \div 2,
                                  t |-> "coin", v |-> 3, r |-> 7, home |-> w1.state.roomId])
                  ELSE @]
        ELSE IF ~w1.state.map[id].cleared
        THEN lockDoors(spawnLoop_p0(w1, 0,
                          4 + rnd.randi4 + (IF w1.state.map[id].depth > 4 THEN 1 ELSE 0),
                          w1.state.map[id].depth, rnd), id, TRUE)
        ELSE lockDoors(w1, id, FALSE)
  IN  populate([ensureRoom(ensureNode_p0(w, id), id) EXCEPT
                  !.state.map[id].kind = kind,
                  !.state.enemies = <<>>, !.state.bullets = <<>>,
                  !.state.pickups = <<>>, !.state.decals = <<>>])

\* stashRoom(roomId): overwrites the room's __cache with clones of the live lists.
stashRoom(w, id) ==
  IF id \notin DOMAIN w.state.rooms THEN w
  ELSE [w EXCEPT !.state.rooms[id].cache =
          <<[enemies |-> w.state.enemies, pickups |-> w.state.pickups,
             decals |-> w.state.decals]>>]

\* A loadRoom that adds a cached room's lists to the live ones instead of
\* replacing them.
loadRoomKeepsLists(w, id, rnd) ==
  LET classify(w0) ==
        [w0 EXCEPT !.state.map[id].kind =
           IF id = <<0, 0>> THEN "start"
           ELSE IF isShopCoord(id[1], id[2]) THEN "shop" ELSE @]
      fill(w3) ==
        IF Len(w3.state.rooms[id].cache) > 0
        THEN [w3 EXCEPT !.state.enemies = @ \o w3.state.rooms[id].cache[1].enemies,
                        !.state.pickups = @ \o w3.state.rooms[id].cache[1].pickups,
                        !.state.decals = @ \o w3.state.rooms[id].cache[1].decals,
                        !.state.bullets = <<>>]
        ELSE spawnRoomContents_p0(w3, id, rnd)
      finish(w4) ==
        [lockDoors(w4, id, ~w4.state.map[id].cleared /\ w4.state.map[id].kind = "combat")
           EXCEPT !.state.map[id].seen = TRUE, !.state.shopOpen = FALSE]
  IN  finish(fill(genRoomTiles(
        buildNeighborsAround_p0(classify(ensureNode_p0(ensureRoom(w, id), id)), id, rnd),
        id, rnd)))

\* loadRoom(roomId)
loadRoom_p0(w, id, rnd) ==
  LET classify(w0) ==
        [w0 EXCEPT !.state.map[id].kind =
           IF id = <<0, 0>> THEN "start"
           ELSE IF isShopCoord(id[1], id[2]) THEN "shop" ELSE @]
      clear(w2) == [w2 EXCEPT !.state.enemies = <<>>, !.state.bullets = <<>>,
                              !.state.pickups = <<>>, !.state.decals = <<>>]
      fill(w3) ==
        IF Len(w3.state.rooms[id].cache) > 0
        THEN [w3 EXCEPT !.state.enemies = w3.state.rooms[id].cache[1].enemies,
                        !.state.pickups = w3.state.rooms[id].cache[1].pickups,
                        !.state.decals = w3.state.rooms[id].cache[1].decals]
        ELSE spawnRoomContents_p0(w3, id, rnd)
      finish(w4) ==
        [lockDoors(w4, id, ~w4.state.map[id].cleared /\ w4.state.map[id].kind = "combat")
           EXCEPT !.state.map[id].seen = TRUE, !.state.shopOpen = FALSE]
  IN  finish(fill(clear(genRoomTiles(
        buildNeighborsAround_p0(classify(ensureNode_p0(ensureRoom(w, id), id)), id, rnd),
        id, rnd))))

(***************************************************************************)
(* Observations of the last step (not program state): the transition made, *)
(* the doors tried, the enemies removed, the phases of update() in the     *)
(* order they ran, and the number of transitions so far; per program also  *)
(* the room that was active when an entity was created (its `home`),       *)
(* the lists a room was left with (left), the kind each coordinate had     *)
(* when first entered (kinds) and the loot rolls per enemy (loot).         *)
(***************************************************************************)
evReset(w, op) ==
  [w EXCEPT !.ev.op = op, !.ev.trans = "none", !.ev.tried = {}, !.ev.removed = 0,
            !.ev.phase = <<>>]

phase(w, name) == [w EXCEPT !.ev.phase = Append(@, name)]

\* Seconds (given in 1/100 s) as ticks of dt = 1/50 s, saturated at TimerTicks.
ticks(cs) == IF (cs + 1) \div 2 > TimerTicks THEN TimerTicks ELSE (cs + 1) \div 2

\* if (t > 0) t -= dt
countdown(t) == IF t > 0 THEN t - 1 ELSE t

\* state.bullets.splice(i, 1) and friends: nothing happens past the end.
splice(s, i) ==
  IF i \in 1..Len(s) THEN SubSeq(s, 1, i - 1) \o SubSeq(s, i + 1, Len(s)) ELSE s

(***************************************************************************)
(* Shooting, damage (part_000)                                             *)
(***************************************************************************)
\* WEAPONS[i]: dmg, fire (1/100 s), pellets; `unlocked` is the variable WEAPONS.
WeaponData_p0 ==
  <<[dmg |-> 2, fire |-> 18, pellets |-> 1],
    [dmg |-> 1, fire |-> 55, pellets |-> 5],
    [dmg |-> 3, fire |-> 12, pellets |-> 1]>>

\* shake(amount, time); the decay of the amount while shakeT runs is not
\* followed, only that it is positive until shakeT runs out.
shake(w, amount, cs) ==
  [w EXCEPT !.state.cam.shake = IF @ > amount THEN @ ELSE amount,
            !.state.cam.shakeT = IF @ > ticks(cs) THEN @ ELSE ticks(cs)]

\* spawnBullet(x, y, vx, vy, dmg, from, kind) with the bullet's life in
\* 1/100 s (part_000: 1.05 s for the player's bullets, 1.6 s for the
\* enemies'); the flight path is not followed.
spawnBullet(w, dmg, from, life) ==
  [w EXCEPT !.state.bullets = Append(@, [from |-> from, dmg |-> dmg, t |-> ticks(life)])]

RECURSIVE pellets_p0(_, _, _)
pellets_p0(w, n, dmg) ==
  IF n = 0 THEN w ELSE pellets_p0(spawnBullet(w, dmg, "player", 105), n - 1, dmg)

\* shoot()
shoot_p0(w) ==
  LET wd == WeaponData_p0[w.player.weapon + 1]
  IN  IF w.player.fireCD > 0 THEN w
      ELSE IF ~w.WEAPONS[w.player.weapon + 1] THEN w
      ELSE shake([pellets_p0(w, wd.pellets, wd.dmg) EXCEPT !.player.fireCD = ticks(wd.fire)],
                 2 + (IF wd.pellets > 1 THEN 2 ELSE 0), 8)

\* hurtPlayer(dmg)
hurtPlayer(w, dmg) ==
  LET die(w1) ==
        IF w1.player.hp <= 0
        THEN [w1 EXCEPT !.player.hp = 0, !.state.msg = "YOU DIED",
                        !.state.msgT = ticks(99900), !.state.paused = TRUE]
        ELSE w1
  IN  IF w.player.invT > 0 THEN w
      ELSE die(shake([w EXCEPT !.player.hp = @ - dmg, !.player.invT = ticks(60)], 6, 16))

(***************************************************************************)
(* Door transition (part_000)                                              *)
(***************************************************************************)
\* place player just inside opposite side
placeInside(G, p, dir) ==
  CASE dir = "N" -> [p EXCEPT !.y = G.ROOM_H - G.inset, !.x = clamp(@, G.inset, G.ROOM_W - G.inset)]
    [] dir = "S" -> [p EXCEPT !.y = G.inset, !.x = clamp(@, G.inset, G.ROOM_W - G.inset)]
    [] dir = "W" -> [p EXCEPT !.x = G.ROOM_W - G.inset, !.y = clamp(@, G.inset, G.ROOM_H - G.inset)]
    [] OTHER     -> [p EXCEPT !.x = G.inset, !.y = clamp(@, G.inset, G.ROOM_H - G.inset)]

\* tryDoorTransitionByIntent(dir); the return value is ev.trans = dir.
tryDoorTransitionByIntent_p0(w, dir, rnd) ==
  LET id   == w.state.roomId
      nid  == roomKey(w.state.roomId[1] + dxOf(dir), w.state.roomId[2] + dyOf(dir))
      tried(v) == [v EXCEPT !.ev.tried = @ \cup {dir}]
      arrive(w3) == [w3 EXCEPT !.player = placeInside(G_p0, @, dir),
                               !.state.cam.shake = 0, !.state.cam.shakeT = 0,
                               !.ev.trans = dir, !.ev.moves = @ + 1]
  IN  IF ~w.state.rooms[id].neighbors[dir] THEN tried(w)
      ELSE IF ~w.state.rooms[id].doorsOpen[dir]
      THEN (IF inDoorBand(G_p0, dir, w.player.x, w.player.y)
            THEN [tried(w) EXCEPT !.state.msg = "DOOR LOCKED", !.state.msgT = ticks(60)]
            ELSE tried(w))
      ELSE arrive(loadRoom_p0(
             [stashRoom(ensureRoom(ensureNode_p0(tried(w), nid), nid), id)
                EXCEPT !.state.roomId = nid], nid, rnd))

(***************************************************************************)
(* Simulation of the active room (part_000).  Enemy motion and bullet      *)
(* flight are not followed: whether an enemy touches the player, whether a *)
(* shooter fires and what a bullet meets this tick are outcomes in `rnd`.  *)
(***************************************************************************)
RECURSIVE dropCoins(_, _, _, _, _)
\* dropCoins(x, y, amount): `amount` coins of radius r (6 in part_000, 9 in
\* n.mjs), each at one outcome of the random angle and distance.
dropCoins(w, x, y, amount, r) ==
  IF amount <= 0 THEN w
  ELSE dropCoins([w EXCEPT !.state.pickups = Append(@,
                    [x |-> x + 2 * r, y |-> y, t |-> "coin", v |-> 1, r |-> r,
                     home |-> w.state.roomId])],
                 x, y, amount - 1, r)

\* The body of updateEnemies' loop for the enemy at index i.
enemyStep_p0(w, i, rnd) ==
  LET e == w.state.enemies[i]
      fire(v) == IF e.type = "shooter" /\ rnd.efire THEN spawnBullet(v, 1, "enemy", 160) ELSE v
      touch(v) == IF rnd.touch /\ i = Len(w.state.enemies) THEN hurtPlayer(v, 1) ELSE v
      death(v) ==
        [dropCoins([v EXCEPT !.state.decals = Append(@, [x |-> e.x, y |-> e.y,
                                                         home |-> v.state.roomId])],
                   e.x, e.y, 1 + rnd.randi2 + toInt(w.state.map[w.state.roomId].depth, 4), 6)
           EXCEPT !.state.pickups =
                    IF rnd.heart
                    THEN Append(@, [x |-> e.x, y |-> e.y, t |-> "heart", v |-> 1, r |-> 7,
                                    home |-> v.state.roomId])
                    ELSE @,
                  !.state.enemies = splice(@, i), !.ev.removed = @ + 1]
  IN  IF e.hp <= 0 THEN death(touch(fire(w))) ELSE touch(fire(w))

RECURSIVE enemyLoop_p0(_, _, _)
enemyLoop_p0(w, i, rnd) ==
  IF i < 1 THEN w ELSE enemyLoop_p0(enemyStep_p0(w, i, rnd), i - 1, rnd)

\* updateEnemies(dt)
updateEnemies_p0(w, rnd) == enemyLoop_p0(w, Len(w.state.enemies), rnd)

\* The body of updateBullets' loop for the bullet at index i; rnd.bo[i] is
\* what the bullet meets: "wall", "hit" (an enemy, or the player) or "fly".
bulletStep(w, i, rnd) ==
  LET b    == [w.state.bullets[i] EXCEPT !.t = @ - 1]
      last == Len(w.state.enemies)
      gone(v)   == [v EXCEPT !.state.bullets = splice(@, i)]
      expire(v) == IF b.t <= 0 THEN gone(v) ELSE v
      aged(v)   == [v EXCEPT !.state.bullets[i] = b]
  IN  IF rnd.bo[i] = "wall" THEN gone(aged(w))
      ELSE IF b.from = "player"
      THEN (IF rnd.bo[i] = "hit" /\ last > 0
            THEN expire(gone(shake([aged(w) EXCEPT !.state.enemies[last].hp = @ - b.dmg], 2, 6)))
            ELSE expire(aged(w)))
      ELSE (IF rnd.bo[i] = "hit"
            THEN gone(hurtPlayer(aged(w), b.dmg))
            ELSE expire(aged(w)))

RECURSIVE bulletLoop(_, _, _)
bulletLoop(w, i, rnd) ==
  IF i < 1 THEN w ELSE bulletLoop(bulletStep(w, i, rnd), i - 1, rnd)

\* updateBullets(dt)
updateBullets(w, rnd) == bulletLoop(w, Len(w.state.bullets), rnd)

\* The body of updatePickups' loop for the pickup at index i.
pickupStep_p0(w, i) ==
  LET p == w.state.pickups[i]
      reach == w.state.pickups[i].r + w.player.r + 6
      take(v) == [v EXCEPT !.state.pickups = splice(@, i)]
  IN  IF dist2(p.x, p.y, w.player.x, w.player.y) < reach * reach
      THEN (IF p.t = "coin"
            THEN take([w EXCEPT !.state.coins = @ + p.v, !.state.msg = "+COIN",
                                !.state.msgT = ticks(35)])
            ELSE IF p.t = "heart"
            THEN take([w EXCEPT !.player.hp = clamp(@ + p.v, 0, w.player.hpMax),
                                !.state.msg = "+HP", !.state.msgT = ticks(45)])
            ELSE take(w))
      ELSE w

RECURSIVE pickupLoop_p0(_, _)
pickupLoop_p0(w, i) ==
  IF i < 1 THEN w ELSE pickupLoop_p0(pickupStep_p0(w, i), i - 1)

\* updatePickups(dt)
updatePickups_p0(w) == pickupLoop_p0(w, Len(w.state.pickups))

\* A clear check that marks the node and leaves the doors as they are.
clearCheckKeepsDoors(w, rnd) ==
  LET id   == w.state.roomId
      node == w.state.map[id]
  IN  IF ~node.cleared /\ node.kind = "combat" /\ Len(w.state.enemies) = 0
      THEN [w EXCEPT !.state.map[id].cleared = TRUE]
      ELSE w

\* The room clear check that ends update().
clearCheck_p0(w, rnd) ==
  LET id == w.state.roomId
  IN  IF ~w.state.map[id].cleared /\ w.state.map[id].kind = "combat" /\ Len(w.state.enemies) = 0
      THEN [lockDoors([w EXCEPT !.state.map[id].cleared = TRUE,
                                !.state.msg = "ROOM CLEARED", !.state.msgT = ticks(90)], id, FALSE)
              EXCEPT !.state.pickups =
                @ \o (IF rnd.reward
                      THEN <<[x |-> ROOM_W \div 2, y |-> ROOM_H \div 2,
                              t |-> "coin", v |-> 3, r |-> 7, home |-> id]>>
                      ELSE <<>>)
                  \o (IF rnd.heart
                      THEN <<[x |-> ROOM_W \div 2 + 18, y |-> ROOM_H \div 2,
                              t |-> "heart", v |-> 1, r |-> 7, home |-> id]>>
                      ELSE <<>>)]
      ELSE w

(***************************************************************************)
(* Shop (part_000)                                                         *)
(***************************************************************************)
SHOP_ITEMS_p0 ==
  <<[cost |-> 8,  type |-> "unlock", weaponId |-> 1, amount |-> 0],
    [cost |-> 14, type |-> "unlock", weaponId |-> 2, amount |-> 0],
    [cost |-> 4,  type |-> "heal",   weaponId |-> 0, amount |-> 2],
    [cost |-> 18, type |-> "maxhp",  weaponId |-> 0, amount |-> 1]>>

\* nearShopCounter()
nearShopCounter(w) ==
  dist2(w.player.x * 10, w.player.y * 10, (ROOM_W \div 2) * 10, TILE * 25) < 380 * 380

\* tryOpenShop()
tryOpenShop_p0(w) ==
  IF w.state.map[w.state.roomId].kind # "shop" THEN w
  ELSE IF ~nearShopCounter(w) THEN [w EXCEPT !.state.msg = "STEP UP TO THE COUNTER", !.state.msgT = ticks(80)]
  ELSE [w EXCEPT !.state.shopOpen = ~@]

\* buyShopItem(item)
buyShopItem_p0(w, item) ==
  IF w.state.coins < item.cost
  THEN shake([w EXCEPT !.state.msg = "NOT ENOUGH COINS", !.state.msgT = ticks(80)], 1, 6)
  ELSE IF item.type = "unlock"
  THEN (IF w.WEAPONS[item.weaponId + 1]
        THEN [w EXCEPT !.state.msg = "ALREADY OWNED", !.state.msgT = ticks(70)]
        ELSE shake([w EXCEPT !.WEAPONS[item.weaponId + 1] = TRUE,
                             !.state.coins = @ - item.cost,
                             !.state.msg = "UNLOCKED", !.state.msgT = ticks(100)], 2, 8))
  ELSE IF item.type = "heal"
  THEN (IF w.player.hp >= w.player.hpMax
        THEN [w EXCEPT !.state.msg = "HP FULL", !.state.msgT = ticks(70)]
        ELSE [w EXCEPT !.state.coins = @ - item.cost,
                       !.player.hp = clamp(@ + item.amount, 0, w.player.hpMax),
                       !.state.msg = "HEALED", !.state.msgT = ticks(90)])
  ELSE IF item.type = "maxhp"
  THEN [w EXCEPT !.state.coins = @ - item.cost, !.player.hpMax = @ + item.amount,
                 !.player.hp = @ + item.amount, !.state.msg = "MAX HP UP", !.state.msgT = ticks(100)]
  ELSE w

\* Weapon swaps with Q and E (the same in shop and normal rooms).
swapWeapon_p0(w, in) ==
  IF in.key = "Q" /\ w.WEAPONS[1] THEN [w EXCEPT !.player.weapon = 0]
  ELSE IF in.key = "E"
  THEN (IF w.WEAPONS[2] THEN [w EXCEPT !.player.weapon = 1]
        ELSE IF w.WEAPONS[3] THEN [w EXCEPT !.player.weapon = 2] ELSE w)
  ELSE w

\* The shop interactions block of update().
shopKeys_p0(w, in) ==
  LET buy(w2) ==
        IF w2.state.shopOpen /\ in.key \in {"1", "2", "3", "4"}
        THEN buyShopItem_p0(w2, SHOP_ITEMS_p0[
               CASE in.key = "1" -> 1 [] in.key = "2" -> 2 [] in.key = "3" -> 3 [] OTHER -> 4])
        ELSE w2
      open(w1) == IF in.key = "F" THEN tryOpenShop_p0(w1) ELSE w1
  IN  IF w.state.map[w.state.roomId].kind = "shop"
      THEN buy(open(swapWeapon_p0(w, in)))
      ELSE swapWeapon_p0(w, in)

(***************************************************************************)
(* resetGame() and update(dt) of part_000                                  *)
(***************************************************************************)
\* resetGame(); cam.shake is not reset by the source.
resetGame_p0(w, rnd) ==
  LET w1 == [w EXCEPT !.state = [paused |-> FALSE, shopOpen |-> FALSE, msg |-> "", msgT |-> 0, keys |-> 0,
                                 coins |-> 0, roomId |-> <<0, 0>>, cam |-> w.state.cam,
                                 map |-> <<>>, rooms |-> <<>>, enemies |-> <<>>,
                                 bullets |-> <<>>, pickups |-> <<>>, decals |-> <<>>],
                      !.WEAPONS = <<TRUE, FALSE, FALSE>>,
                      !.player = [x |-> ROOM_W \div 2, y |-> ROOM_H \div 2, r |-> 8,
                                  hp |-> 6, hpMax |-> 6, invT |-> 0, dashT |-> 0,
                                  dashCD |-> 0, vx |-> 0, vy |-> 0,
                                  weapon |-> 0, fireCD |-> 0],
                      !.ev.op = "reset", !.ev.moves = 0]
  IN  loadRoom_p0(ensureRoom(ensureNode_p0(w1, <<0, 0>>), <<0, 0>>), <<0, 0>>, rnd)

\* lerp(v, 0, 10 * dt) with dt = 1/50; exact when the player is at rest,
\* which is when the inputs release the movement keys.
lerpToZero(v) == toInt(v * 4, 5)

\* lerp(v, 0, 4 * dt) with dt = 1/50, in whole pixels per tick.
lerpDash(v) == toInt(v * 92, 100)

\* The dash block of update(): SPACE or SHIFT pressed with dashCD run out.
\* 640 px/s is 12 whole pixels per tick.  The inputs dash with a movement
\* key held, so the aim-at-the-mouse branch is not taken.
dash_p0(w, in) ==
  IF in.dash /\ w.player.dashCD <= 0
  THEN shake([w EXCEPT !.player.dashT = ticks(12), !.player.dashCD = ticks(75),
                       !.player.vx = dxOf(in.move) * (640 \div 50),
                       !.player.vy = dyOf(in.move) * (640 \div 50)], 3, 8)
  ELSE w

RECURSIVE doorIntentsByPosition(_, _, _, _, _)
\* The door tests of update(dt) made on the position alone: a player in a
\* doorway band goes through whatever the velocity.
doorIntentsByPosition(w, i, nxp, nyp, rnd) ==
  LET dir == <<"N", "S", "W", "E">>[i]
      next(w1) == IF w1.ev.trans # "none" THEN w1
                  ELSE doorIntentsByPosition(w1, i + 1, nxp, nyp, rnd)
  IN  IF i > 4 THEN w
      ELSE IF inDoorBand(G_p0, dir, w.player.x, w.player.y)
      THEN next(tryDoorTransitionByIntent_p0(w, dir, rnd))
      ELSE next(w)

RECURSIVE doorIntents_p0(_, _, _, _, _)
\* The four door-intent checks of update(), north, south, west, east; the
\* first successful transition ends them.
doorIntents_p0(w, i, nxp, nyp, rnd) ==
  LET dir == <<"N", "S", "W", "E">>[i]
      pushing == CASE i = 1 -> w.player.vy < 0 /\ nyp <= 2
                   [] i = 2 -> w.player.vy > 0 /\ nyp >= ROOM_H - 2
                   [] i = 3 -> w.player.vx < 0 /\ nxp <= 2
                   [] OTHER -> w.player.vx > 0 /\ nxp >= ROOM_W - 2
      next(w1) == IF w1.ev.trans # "none" THEN w1 ELSE doorIntents_p0(w1, i + 1, nxp, nyp, rnd)
  IN  IF i > 4 THEN w
      ELSE IF pushing /\ inDoorBand(G_p0, dir, w.player.x, w.player.y)
      THEN next(tryDoorTransitionByIntent_p0(w, dir, rnd))
      ELSE next(w)

\* normal collision resolution: x first, then y against the new x.
moveWithCollision(G, w, nxp, nyp) ==
  LET g == w.state.rooms[w.state.roomId].g[1]
      moveY(w1) == IF ~collideCircle(G, w1.player.x, nyp, w.player.r, g)
                   THEN [w1 EXCEPT !.player.y = nyp] ELSE [w1 EXCEPT !.player.vy = 0]
  IN  IF ~collideCircle(G, nxp, w.player.y, w.player.r, g)
      THEN moveY([w EXCEPT !.player.x = nxp]) ELSE moveY([w EXCEPT !.player.vx = 0])

\* update(dt) from the movement keys on (the shop is not open).
play_p0(w, in, rnd) ==
  LET sp == 150 \div 50    \* player.speed * dt
      steer(b0) ==
        IF b0.player.dashT > 0
        THEN [b0 EXCEPT !.player.vx = lerpDash(@), !.player.vy = lerpDash(@)]
        ELSE IF in.move # "none"
        THEN [b0 EXCEPT !.player.vx = dxOf(in.move) * sp, !.player.vy = dyOf(in.move) * sp]
        ELSE [b0 EXCEPT !.player.vx = lerpToZero(@), !.player.vy = lerpToZero(@)]
      fire(b1) == IF in.mouse THEN shoot_p0(b1) ELSE b1
      sim(c1) == phase(clearCheck_p0(
                   phase(updatePickups_p0(updateBullets(updateEnemies_p0(c1, rnd), rnd)), "sim"),
                   rnd), "clear")
      rest(b2, b3) ==
        IF b3.ev.trans # "none" THEN b3
        ELSE sim(phase(moveWithCollision(G_p0, b3, b2.player.x + b2.player.vx,
                                         b2.player.y + b2.player.vy), "move"))
      doors(b2) == rest(b2, phase(doorIntents_p0(b2, 1, b2.player.x + b2.player.vx,
                                                 b2.player.y + b2.player.vy, rnd), "door"))
  IN  doors(fire(steer(dash_p0(w, in))))

\* update(dt)
update_p0(w, in, rnd) ==
  LET esc(v) == IF in.key # "ESC" THEN v
                ELSE IF v.state.paused THEN [v EXCEPT !.state.paused = FALSE]
                ELSE IF v.state.shopOpen THEN [v EXCEPT !.state.shopOpen = FALSE]
                ELSE [v EXCEPT !.state.paused = TRUE]
      restart(v) == IF in.key = "R" THEN resetGame_p0(v, rnd) ELSE v
      timers(a2) ==
        [a2 EXCEPT !.state.msgT = countdown(@),
                   !.state.msg = IF a2.state.msgT > 1 THEN @ ELSE "",
                   !.player.invT = countdown(@), !.player.fireCD = countdown(@),
                   !.player.dashT = countdown(@), !.player.dashCD = countdown(@),
                   !.state.cam.shakeT = countdown(@),
                   !.state.cam.shake = IF a2.state.cam.shakeT > 0 THEN @ ELSE 0]
      run(a4) == IF a4.state.shopOpen THEN a4 ELSE play_p0(a4, in, rnd)
  IN  IF w.state.paused
      THEN restart(esc(evReset(w, "update")))
      ELSE run(shopKeys_p0(timers(restart(esc(evReset(w, "update")))), in))

(***************************************************************************)
(* Inputs and random outcomes explored.  The player walks the two centre   *)
(* lines of a room, releases the movement keys only at rest, dashes only   *)
(* from rest at a door, and fights standing: enemies attack only a player  *)
(* who stands and has not yet hit them, and the player walks only while    *)
(* the room is calm.                                                       *)
(***************************************************************************)
World == [state |-> state, player |-> player, WEAPONS |-> WEAPONS, ev |-> ev]

standing(w) == w.player.vx = 0 /\ w.player.vy = 0

\* No enemy of the room has been hit or killed and no bullet is in flight.
\* `full` gives the hp an enemy of each type is spawned with in this room
\* and the number n of enemies spawned.
untouched(w, full) ==
  /\ w.state.bullets = <<>>
  /\ Len(w.state.enemies) = full.n
  /\ \A i \in 1..Len(w.state.enemies) : w.state.enemies[i].hp = full[w.state.enemies[i].type]

\* A hurt player walks only to a heart.
fit(w) ==
  \/ w.player.hp = w.player.hpMax
  \/ \E i \in 1..Len(w.state.pickups) : w.state.pickups[i].t = "heart"

calm(w, full) ==
  \/ w.state.enemies = <<>> /\ fit(w)
  \/ untouched(w, full) /\ w.player.invT = 0 /\ w.player.hp = w.player.hpMax

fullHp_p0(w) ==
  [chaser |-> 5 + toInt(w.state.map[w.state.roomId].depth, 3),
   shooter |-> 6 + toInt(w.state.map[w.state.roomId].depth, 3),
   n |-> 4 + (IF w.state.map[w.state.roomId].depth > 4 THEN 1 ELSE 0)]

MoveKeys(G, w, isCalm) ==
  IF w.state.paused \/ w.state.shopOpen THEN {"none"}
  ELSE (IF standing(w) THEN {"none"} ELSE {})
       \cup (IF isCalm /\ w.player.x = G.ROOM_W \div 2 THEN {"N", "S"} ELSE {})
       \cup (IF isCalm /\ w.player.y = G.ROOM_H \div 2 THEN {"W", "E"} ELSE {})

PressKeys_p0(w) ==
  {"none", "R"}
  \cup (IF w.state.paused \/ w.state.shopOpen \/ (standing(w) /\ calm(w, fullHp_p0(w)))
        THEN {"ESC"} ELSE {})
  \cup (IF ~w.state.paused /\ w.state.map[w.state.roomId].kind = "shop"
        THEN (IF standing(w) \/ nearShopCounter(w) THEN {"F"} ELSE {})
             \cup (IF w.state.shopOpen THEN {"1", "2", "3", "4"} ELSE {})
        ELSE {})
  \cup (IF ~w.state.paused /\ (w.WEAPONS[2] \/ w.WEAPONS[3]) THEN {"Q", "E"} ELSE {})

mayShoot(w, move, n) ==
  /\ ~w.state.paused /\ ~w.state.shopOpen
  /\ w.player.fireCD <= 1
  /\ Len(w.state.bullets) + n <= MaxBullets
  /\ w.player.hp >= w.player.hpMax - 1 \/ w.player.hp = 0
  /\ standing(w) /\ move = "none"

mayDash(G, w, move) ==
  /\ ~w.state.paused /\ ~w.state.shopOpen
  /\ standing(w) /\ move # "none"
  /\ inDoorBand(G, move, w.player.x, w.player.y)

Inputs_p0(w) ==
  {in \in [key : PressKeys_p0(w), move : MoveKeys(G_p0, w, calm(w, fullHp_p0(w))),
           mouse : BOOLEAN, dash : BOOLEAN] :
     /\ in.key # "none" => ~in.mouse /\ ~in.dash
     /\ in.key \notin {"none", "F"} => in.move = "none"
     /\ in.mouse => mayShoot(w, in.move, WeaponData_p0[w.player.weapon + 1].pellets)
     /\ in.dash => mayDash(G_p0, w, in.move)}

flag(cond) == IF cond THEN BOOLEAN ELSE {FALSE}

\* The draws of one update: a room loaded by the first transition holds a
\* shooter exactly when it is the western one, pillars are drawn from the
\* second transition on, and a heart drops only for a hurt player.
Rnds(G, w, in, full) ==
  LET live    == ~w.state.paused /\ ~w.state.shopOpen /\ in.key = "none"
      fight   == live /\ standing(w) /\ in.move = "none" /\ w.state.enemies # <<>>
      attack  == fight /\ ~in.mouse /\ untouched(w, full)
      loads   == live /\ in.move # "none" /\ inDoorBand(G, in.move, w.player.x, w.player.y)
      dying   == live /\ Len(w.state.enemies) = 1 /\ w.state.enemies[1].hp <= 0
      hurt    == w.player.hp < w.player.hpMax /\ w.player.hp > 0
      shooter == \E i \in 1..Len(w.state.enemies) : w.state.enemies[i].type = "shooter"
      n       == Len(w.state.bullets)
      meets(i) == IF ~live \/ i > n + 1 THEN {"fly"}
                  ELSE IF ~fight THEN {"fly", "wall"}
                  ELSE {"fly", "wall", "hit"}
  IN  {r \in [pillar : flag(loads /\ w.ev.moves > 0),
              shooter : IF loads /\ w.ev.moves = 0 THEN {in.move = "W"} ELSE flag(loads),
              randi4 : {0}, randi3 : {0}, randi2 : {0}, unlock : {0},
              efire : flag(attack /\ shooter /\ n < MaxBullets), touch : flag(attack),
              heart : flag(dying /\ hurt), reward : flag(dying /\ hurt),
              bo : [1..MaxBullets -> {"fly", "wall", "hit"}]] :
         /\ r.reward = r.heart
         /\ \A i \in 1..MaxBullets : r.bo[i] \in meets(i)}

(***************************************************************************)
(* Specification of part_000: Game.create() then frames.                   *)
(***************************************************************************)
NoRnd ==
  [pillar |-> FALSE, shooter |-> FALSE, randi4 |-> 0, randi3 |-> 0, randi2 |-> 0,
   unlock |-> 0, efire |-> FALSE,
   touch |-> FALSE, heart |-> FALSE, reward |-> FALSE, bo |-> [i \in 1..MaxBullets |-> "fly"],
   make |-> allDoors(FALSE), treasure |-> FALSE, boss |-> FALSE, locked |-> FALSE, key |-> FALSE]

\* The objects as the script declares them, before Game.create().
Declared ==
  [state |-> [cam |-> [shake |-> 0, shakeT |-> 0]], player |-> <<>>, WEAPONS |-> <<>>,
   ev |-> [op |-> "init", trans |-> "none", tried |-> {}, removed |-> 0, phase |-> <<>>,
           moves |-> 0, left |-> <<>>, kinds |-> <<>>, loot |-> <<>>]]

Becomes(w) ==
  /\ state' = w.state
  /\ player' = w.player
  /\ WEAPONS' = w.WEAPONS
  /\ ev' = w.ev

Init_p0 ==
  LET w == resetGame_p0(Declared, NoRnd)
  IN  /\ state = w.state
      /\ player = w.player
      /\ WEAPONS = w.WEAPONS
      /\ ev = [w.ev EXCEPT !.op = "init"]

\* One frame: update(dt) with the keys and mouse of that frame.
Update_p0 ==
  \E in \in Inputs_p0(World) : \E rnd \in Rnds(G_p0, World, in, fullHp_p0(World)) :
    \E w \in {update_p0(World, in, rnd)} :
      /\ ev.moves < MaxMoves
      /\ Len(w.state.bullets) <= MaxBullets
      /\ Becomes(w)

Next_p0 == Update_p0

Spec_p0 == Init_p0 /\ [][Next_p0]_vars

(***************************************************************************)
(* Properties of part_000                                                  *)
(***************************************************************************)
roomNow == state.rooms[state.roomId]

nodeNow == state.map[state.roomId]

\* C1: in every reachable state, every materialised room has doorsOpen[d]
\* true only if neighbors[d] is true, for each of the four directions.
C1_DoorsOpenOnlyToNeighbours ==
  \A id \in DOMAIN state.rooms : \A d \in Dirs :
    state.rooms[id].doorsOpen[d] => state.rooms[id].neighbors[d]

\* C3: while the player is in a combat room, its four doors are closed as
\* long as an enemy is left in the live list, and when the list is empty
\* after a tick the node is cleared and the four doors are open.
C3_CombatDoors ==
  nodeNow.kind = "combat" =>
    /\ state.enemies # <<>> => ~nodeNow.cleared /\ \A d \in Dirs : ~roomNow.doorsOpen[d]
    /\ state.enemies = <<>> => nodeNow.cleared /\ \A d \in Dirs : roomNow.doorsOpen[d]

\* The tick that removed the last enemy of a combat room.
C3_LastEnemyRemoved ==
  /\ nodeNow.kind = "combat" /\ ev.op = "update" /\ ev.removed > 0
  /\ state.enemies = <<>> /\ nodeNow.cleared /\ roomNow.doorsOpen["N"]

\* C4: next to a closed door that leads to a neighbour, the player's centre
\* does not pass the room's edge (north: y never below 0; likewise for the
\* south, west and east doors).
C4_ClosedDoorBlocks ==
  /\ roomNow.neighbors["N"] /\ ~roomNow.doorsOpen["N"] => player.y >= 0
  /\ roomNow.neighbors["S"] /\ ~roomNow.doorsOpen["S"] => player.y <= ROOM_H
  /\ roomNow.neighbors["W"] /\ ~roomNow.doorsOpen["W"] => player.x >= 0
  /\ roomNow.neighbors["E"] /\ ~roomNow.doorsOpen["E"] => player.x <= ROOM_W

\* C7: once player.hp is 0, a tick that does not restart the run leaves the
\* player's position and hp, the enemies, bullets and pickups, the coins and
\* the room unchanged.
C7_DeathIsTerminal ==
  [][(player.hp = 0 /\ ev'.op # "reset") =>
       /\ player'.x = player.x /\ player'.y = player.y /\ player'.hp = player.hp
       /\ state'.enemies = state.enemies /\ state'.bullets = state.bullets
       /\ state'.pickups = state.pickups /\ state'.coins = state.coins
       /\ state'.roomId = state.roomId]_vars

C14_TileGridFixed ==
  [][ev'.op = "update" =>
       \A id \in DOMAIN state.rooms :
         state.rooms[id].g # <<>> => state'.rooms[id].g = state.rooms[id].g]_vars

C16_OutsideIsSolid ==
  LET xs == {-2 * TILE, -TILE, 1 - TILE, -1, 0, TILE + 1, ROOM_W \div 2,
             ROOM_W - 1, ROOM_W, ROOM_W + TILE - 1, ROOM_W + TILE}
      ys == {-2 * TILE, -TILE, 1 - TILE, -1, 0, TILE + 1, ROOM_H \div 2,
             ROOM_H - 1, ROOM_H, ROOM_H + TILE - 1, ROOM_H + TILE}
  IN  \A wx \in xs, wy \in ys :
        (wx < 0 \/ wy < 0 \/ wx >= ROOM_W \/ wy >= ROOM_H)
          => isSolidAtPoint(G_p0, wx * 1000, wy * 1000, roomNow.g[1])

(***************************************************************************)
(* n.mjs: the scaled-up program.  Rooms have no cache: loadRoom populates  *)
(* a room anew on every entry.  One tick is dt = 2/95 s, so that the       *)
(* walking speed of 190 px/s is 4 whole pixels per tick.                   *)
(***************************************************************************)
\* cos and sin of (i / 14) * TAU, i = 0..13, in 1/1000.
COS14 == <<1000, 901, 623, 223, -223, -623, -901, -1000, -901, -623, -223, 223, 623, 901>>

SIN14 == <<0, 434, 782, 975, 975, 782, 434, 0, -434, -782, -975, -975, -782, -434>>

G_mjs == [TILE |-> 40, ROOM_TW |-> 21, ROOM_TH |-> 13, ROOM_W |-> 21 * 40, ROOM_H |-> 13 * 40,
          DOOR_SPAN |-> 44, DOOR_THICK |-> 26,
          r |-> 13, inset |-> 24, cos |-> COS14, sin |-> SIN14, pillar |-> 300]

\* ensureNode(id)
ensureNode_mjs(w, id) ==
  IF id \in DOMAIN w.state.map THEN w
  ELSE [w EXCEPT !.state.map = @ @@ (id :>
          [x |-> id[1], y |-> id[2], depth |-> abs(id[1]) + abs(id[2]),
           kind |-> "combat", seen |-> FALSE, cleared |-> FALSE, flags |-> <<>>])]

\* ensureRoom(id): a room holds its grid, its doors and nothing else.
ensureRoom_mjs(w, id) ==
  IF id \in DOMAIN w.state.rooms THEN w
  ELSE [w EXCEPT !.state.rooms = @ @@ (id :>
          [g |-> <<>>, doorsOpen |-> allDoors(TRUE), neighbors |-> allDoors(FALSE)])]

\* assignRoomKind(node)
assignRoomKind_mjs(id) ==
  IF id = <<0, 0>> THEN "start"
  ELSE IF isShopCoord(id[1], id[2]) THEN "shop" ELSE "combat"

\* shouldSpawnBoss(node)
shouldSpawnBoss_mjs(node) ==
  node.kind = "combat" /\ node.depth > 0 /\ node.depth % 10 = 0

\* buildNeighborsAround(id), with its nested link(nx, ny, dirA, dirB).
buildNeighborsAround_mjs(w, id, rnd) ==
  LET nb(dir) == roomKey(id[1] + dxOf(dir), id[2] + dyOf(dir))
      link(v, dir) ==
        IF abs(nb(dir)[1]) + abs(nb(dir)[2]) > MaxDepth THEN v
        ELSE [ensureRoom_mjs(ensureNode_mjs(
                [v EXCEPT !.state.rooms[id].neighbors[dir] = TRUE], nb(dir)), nb(dir))
                EXCEPT !.state.rooms[nb(dir)].neighbors[opposite(dir)] = TRUE]
      kind(v) == [v EXCEPT !.state.map[id].kind = assignRoomKind_mjs(id)]
  IN  genRoomTiles(
        kind(link(link(link(link(ensureRoom_mjs(ensureNode_mjs(w, id), id), "N"), "S"), "W"), "E")),
        id, rnd)

\* spawnEnemy(type, x, y, depth)
spawnEnemy_mjs(w, type, x, y, depth) ==
  [w EXCEPT !.state.enemies = Append(@,
     [type |-> type, x |-> x, y |-> y, r |-> IF type = "shooter" THEN 18 ELSE 19,
      hp |-> (IF type = "shooter" THEN 10 ELSE 9) + toInt(depth, 3)])]

\* spawnBoss(x, y, depth); rnd.randi4 is the pattern drawn.
spawnBoss_mjs(w, x, y, depth, rnd) ==
  shake([w EXCEPT !.state.enemies = Append(@,
           [type |-> "boss", x |-> x, y |-> y, r |-> 30, hp |-> 140 + depth * 6,
            patternId |-> rnd.randi4]),
         !.state.msg = "BOSS", !.state.msgT = ticks(120)], 10, 22)

\* spawnRoomContents(roomId)
spawnRoomContents_mjs(w, id, rnd) ==
  LET RECURSIVE spawn(_, _, _)
      spawn(v, i, n) ==
        IF i >= n THEN v
        ELSE spawn(spawnEnemy_mjs(v, IF i = 0 /\ rnd.shooter THEN "shooter" ELSE "chaser",
                                  EnemySlots[(i % Len(EnemySlots)) + 1][1],
                                  EnemySlots[(i % Len(EnemySlots)) + 1][2],
                                  v.state.map[id].depth), i + 1, n)
      populate(w1) ==
        IF w1.state.map[id].kind \in {"start", "shop"}
        THEN [lockDoors([w1 EXCEPT !.state.map[id].cleared = TRUE], id, FALSE)
                EXCEPT !.state.pickups =
                  IF w1.state.map[id].kind = "start"
                  THEN Append(@, [x |-> G_mjs.ROOM_W \div 2 + 60, y |-> G_mjs.ROOM_H \div 2,
                                  t |-> "coin", v |-> 6, r |-> 10])
                  ELSE @]
        ELSE IF ~w1.state.map[id].cleared
        THEN lockDoors(
               IF shouldSpawnBoss_mjs(w1.state.map[id])
               THEN spawnBoss_mjs(w1, G_mjs.ROOM_W \div 2, G_mjs.ROOM_H \div 2,
                                  w1.state.map[id].depth, rnd)
               ELSE spawn(w1, 0, 4 + rnd.randi4 + toInt(w1.state.map[id].depth, 4)),
               id, TRUE)
        ELSE lockDoors(w1, id, FALSE)
  IN  populate([ensureRoom_mjs(ensureNode_mjs(w, id), id) EXCEPT
                  !.state.map[id].kind = assignRoomKind_mjs(id),
                  !.state.enemies = <<>>, !.state.bullets = <<>>,
                  !.state.pickups = <<>>])

\* loadRoom(roomId): nothing of an earlier visit is restored.
loadRoom_mjs(w, id, rnd) ==
  LET classify(w0) == [w0 EXCEPT !.state.map[id].kind = assignRoomKind_mjs(id)]
      finish(w4) == [w4 EXCEPT !.state.map[id].seen = TRUE, !.state.shopOpen = FALSE]
  IN  finish(spawnRoomContents_mjs(
        genRoomTiles(buildNeighborsAround_mjs(classify(ensureNode_mjs(w, id)), id, rnd),
                         id, rnd), id, rnd))

\* tryDoorTransitionByIntent(dir); the return value is ev.trans = dir.  The
\* live lists the room is left with are noted in ev.left.
tryDoorTransitionByIntent_mjs(w, dir, rnd) ==
  LET id   == w.state.roomId
      nid  == roomKey(w.state.roomId[1] + dxOf(dir), w.state.roomId[2] + dyOf(dir))
      tried(v) == [v EXCEPT !.ev.tried = @ \cup {dir}]
      leave(v) == [v EXCEPT !.ev.left =
                     (id :> [enemies |-> v.state.enemies, pickups |-> v.state.pickups]) @@ @]
      arrive(w3) == [w3 EXCEPT !.player = placeInside(G_mjs, @, dir),
                               !.ev.trans = dir, !.ev.moves = @ + 1]
  IN  IF ~w.state.rooms[id].neighbors[dir] THEN tried(w)
      ELSE IF ~w.state.rooms[id].doorsOpen[dir]
      THEN (IF inDoorBand(G_mjs, dir, w.player.x, w.player.y)
            THEN [tried(w) EXCEPT !.state.msg = "DOOR LOCKED", !.state.msgT = ticks(70)]
            ELSE tried(w))
      ELSE arrive(loadRoom_mjs(
             [ensureRoom_mjs(ensureNode_mjs(leave(tried(w)), nid), nid)
                EXCEPT !.state.roomId = nid], nid, rnd))

(***************************************************************************)
(* Shop and combat (n.mjs)                                                 *)
(***************************************************************************)
\* WEAPONS[i]: dmg, fire (1/100 s), pellets; `unlocked` is the variable WEAPONS.
WeaponData_mjs ==
  <<[dmg |-> 3,  fire |-> 18, pellets |-> 1],
    [dmg |-> 2,  fire |-> 55, pellets |-> 6],
    [dmg |-> 4,  fire |-> 12, pellets |-> 1],
    [dmg |-> 2,  fire |-> 7,  pellets |-> 1],
    [dmg |-> 10, fire |-> 65, pellets |-> 1],
    [dmg |-> 3,  fire |-> 22, pellets |-> 3],
    [dmg |-> 5,  fire |-> 30, pellets |-> 1]>>

SHOP_ITEMS_mjs ==
  <<[cost |-> 10, type |-> "unlock", weaponId |-> 1, amount |-> 0],
    [cost |-> 16, type |-> "unlock", weaponId |-> 2, amount |-> 0],
    [cost |-> 18, type |-> "unlock", weaponId |-> 3, amount |-> 0],
    [cost |-> 22, type |-> "unlock", weaponId |-> 4, amount |-> 0],
    [cost |-> 20, type |-> "unlock", weaponId |-> 5, amount |-> 0],
    [cost |-> 26, type |-> "unlock", weaponId |-> 6, amount |-> 0],
    [cost |-> 6,  type |-> "heal",   weaponId |-> 0, amount |-> 3]>>

\* nearShopCounter(): the counter is at (ROOM_W / 2, TILE * 2.7).
nearShopCounter_mjs(w) ==
  dist2(w.player.x, w.player.y, G_mjs.ROOM_W \div 2, (G_mjs.TILE * 27) \div 10) < 60 * 60

\* tryOpenShop()
tryOpenShop_mjs(w) ==
  IF w.state.map[w.state.roomId].kind # "shop" THEN w
  ELSE IF ~nearShopCounter_mjs(w)
  THEN [w EXCEPT !.state.msg = "STEP TO COUNTER", !.state.msgT = ticks(80)]
  ELSE [w EXCEPT !.state.shopOpen = ~@]

\* buyShopItem(item)
buyShopItem_mjs(w, item) ==
  IF w.state.coins < item.cost
  THEN shake([w EXCEPT !.state.msg = "NOT ENOUGH COINS", !.state.msgT = ticks(80)], 2, 8)
  ELSE IF item.type = "unlock"
  THEN (IF w.WEAPONS[item.weaponId + 1]
        THEN [w EXCEPT !.state.msg = "ALREADY OWNED", !.state.msgT = ticks(70)]
        ELSE [w EXCEPT !.WEAPONS[item.weaponId + 1] = TRUE, !.state.coins = @ - item.cost,
                       !.state.msg = "UNLOCKED", !.state.msgT = ticks(100)])
  ELSE IF item.type = "heal"
  THEN (IF w.player.hp >= w.player.hpMax
        THEN [w EXCEPT !.state.msg = "HP FULL", !.state.msgT = ticks(70)]
        ELSE [w EXCEPT !.state.coins = @ - item.cost,
                       !.player.hp = clamp(@ + item.amount, 0, w.player.hpMax),
                       !.state.msg = "HEALED", !.state.msgT = ticks(90)])
  ELSE w

\* A cycleWeapon that takes the next weapon, unlocked or not.
cycleWeaponAny(w, dir) ==
  [w EXCEPT !.player.weapon = (@ + dir + Len(w.WEAPONS)) % Len(w.WEAPONS)]

\* cycleWeapon(dir): the next unlocked weapon in direction dir, if any.
cycleWeapon_mjs(w, dir) ==
  LET n == Len(w.WEAPONS)
      at(k) == (w.player.weapon + dir * k + n * n) % n
      ks == {k \in 1..n : w.WEAPONS[at(k) + 1]}
  IN  IF ks = {} THEN w
      ELSE [w EXCEPT !.player.weapon = at(CHOOSE k \in ks : \A j \in ks : k <= j)]

\* unlockRandomWeapon(); rnd.unlock is the draw among the locked weapons.
unlockRandomWeapon_mjs(w, rnd) ==
  LET locked == SelectSeq([i \in 1..Len(w.WEAPONS) |-> i], LAMBDA i : ~w.WEAPONS[i])
  IN  IF Len(locked) = 0 THEN w
      ELSE [w EXCEPT !.WEAPONS[locked[(rnd.unlock % Len(locked)) + 1]] = TRUE,
                     !.state.msg = "FOUND", !.state.msgT = ticks(110)]

\* shoot()
shoot_mjs(w) ==
  LET wd == WeaponData_mjs[w.player.weapon + 1]
      RECURSIVE pellets(_, _)
      pellets(v, n) ==
        IF n = 0 THEN v ELSE pellets(spawnBullet(v, wd.dmg, "player", 110), n - 1)
  IN  IF w.player.fireCD > 0 THEN w
      ELSE IF ~w.WEAPONS[w.player.weapon + 1] THEN w
      ELSE IF w.player.weapon = 5
      THEN [w EXCEPT !.player.burstQ = wd.pellets, !.player.burstCD = 0,
                     !.player.fireCD = ticks(wd.fire)]
      ELSE IF w.player.weapon = 6
      THEN shake([spawnBullet(w, wd.dmg, "player", 90)
                    EXCEPT !.player.fireCD = ticks(wd.fire)], 3, 7)
      ELSE shake([pellets(w, wd.pellets) EXCEPT !.player.fireCD = ticks(wd.fire)],
                 2 + (IF wd.pellets > 1 THEN 2 ELSE 0), 8)

\* updateBurst(dt): burstCD is counted down here as well, below zero too.
updateBurst_mjs(w) ==
  IF w.player.burstQ <= 0 THEN w
  ELSE IF w.player.burstCD - 1 > 0 THEN [w EXCEPT !.player.burstCD = @ - 1]
  ELSE shake([spawnBullet(w, WeaponData_mjs[6].dmg, "player", 100)
                EXCEPT !.player.burstQ = @ - 1, !.player.burstCD = ticks(3)], 2, 4)

\* hurtPlayer(dmg)
hurtPlayer_mjs(w, dmg) ==
  LET die(w1) ==
        IF w1.player.hp <= 0
        THEN [w1 EXCEPT !.player.hp = 0, !.state.msg = "YOU DIED",
                        !.state.msgT = ticks(99900), !.state.paused = TRUE]
        ELSE w1
  IN  IF w.player.invT > 0 THEN w
      ELSE die(shake([w EXCEPT !.player.hp = @ - dmg, !.player.invT = ticks(70)], 9, 18))

\* bossAttack(boss, dt): a volley when the boss's fireCD has run out, which
\* is the outcome rnd.efire.
bossAttack_mjs(w, boss, rnd) ==
  LET RECURSIVE volley(_, _, _, _)
      volley(v, n, dmg, life) ==
        IF n = 0 THEN v ELSE volley(spawnBullet(v, dmg, "enemy", life), n - 1, dmg, life)
  IN  IF ~rnd.efire THEN w
      ELSE shake(CASE boss.patternId = 0 -> volley(w, 9, 1, 220)
                   [] boss.patternId = 1 -> volley(w, 3, 1, 200)
                   [] boss.patternId = 2 -> volley(w, 6, 1, 240)
                   [] OTHER -> volley(w, 1, 2, 120), 6, 10)

\* updateEnemies(dt).  Enemy motion is not followed: whether an enemy
\* touches the player and whether it fires are outcomes in `rnd`.
updateEnemies_mjs(w, rnd) ==
  LET depth == w.state.map[w.state.roomId].depth
      \* rnd.heart is the chance() drawn when an enemy dies.
      boss(v, i, e) ==
        LET hit(v1) == IF rnd.touch /\ i = Len(w.state.enemies) THEN hurtPlayer_mjs(v1, 2) ELSE v1
            loot(v2) == IF rnd.heart THEN unlockRandomWeapon_mjs(v2, rnd) ELSE v2
            death(v3) ==
              [shake([loot(dropCoins(v3, e.x, e.y, 30, 9))
                        EXCEPT !.state.enemies = splice(@, i), !.ev.removed = @ + 1], 14, 25)
                 EXCEPT !.state.msg = "BOSS DOWN!", !.state.msgT = ticks(120)]
        IN  IF e.hp <= 0 THEN death(hit(bossAttack_mjs(v, e, rnd)))
            ELSE hit(bossAttack_mjs(v, e, rnd))
      normal(v, i, e) ==
        LET fire(v1) == IF e.type = "shooter" /\ rnd.efire
                        THEN spawnBullet(v1, 1, "enemy", 200) ELSE v1
            touch(v2) == IF rnd.touch /\ i = Len(w.state.enemies) THEN hurtPlayer_mjs(v2, 1) ELSE v2
            death(v3) ==
              [dropCoins(v3, e.x, e.y, 2 + rnd.randi3 + toInt(depth, 4), 9)
                 EXCEPT !.state.pickups =
                          IF rnd.heart
                          THEN Append(@, [x |-> e.x, y |-> e.y, t |-> "heart", v |-> 2, r |-> 10])
                          ELSE @,
                        !.state.enemies = splice(@, i), !.ev.removed = @ + 1]
        IN  IF e.hp <= 0 THEN death(touch(fire(v))) ELSE touch(fire(v))
      RECURSIVE loop(_, _)
      loop(v, i) ==
        IF i < 1 THEN v
        ELSE loop(IF v.state.enemies[i].type = "boss" THEN boss(v, i, v.state.enemies[i])
                  ELSE normal(v, i, v.state.enemies[i]), i - 1)
  IN  loop(w, Len(w.state.enemies))

\* updateBullets(dt); rnd.bo[i] is what the bullet at index i meets: "wall",
\* "hit" (an enemy, or the player) or "fly".
updateBullets_mjs(w, rnd) ==
  LET step(v, i, b) ==
        LET gone(v1)   == [v1 EXCEPT !.state.bullets = splice(@, i)]
            expire(v2) == IF b.t <= 0 THEN gone(v2) ELSE v2
            aged(v3)   == [v3 EXCEPT !.state.bullets[i] = b]
        IN  IF rnd.bo[i] = "wall" THEN gone(aged(v))
            ELSE IF b.from = "player"
            THEN (IF rnd.bo[i] = "hit" /\ Len(v.state.enemies) > 0
                  THEN expire(gone(shake(
                         [aged(v) EXCEPT !.state.enemies[Len(v.state.enemies)].hp = @ - b.dmg],
                         2, 5)))
                  ELSE expire(aged(v)))
            ELSE (IF rnd.bo[i] = "hit"
                  THEN gone(hurtPlayer_mjs(aged(v), b.dmg))
                  ELSE expire(aged(v)))
      RECURSIVE loop(_, _)
      loop(v, i) ==
        IF i < 1 THEN v
        ELSE loop(step(v, i, [v.state.bullets[i] EXCEPT !.t = @ - 1]), i - 1)
  IN  loop(w, Len(w.state.bullets))

\* updatePickups(dt)
updatePickups_mjs(w) ==
  LET step(v, i, p) ==
        IF dist2(p.x, p.y, v.player.x, v.player.y)
             < (p.r + v.player.r + 10) * (p.r + v.player.r + 10)
        THEN [(IF p.t = "coin"
               THEN [v EXCEPT !.state.coins = @ + p.v, !.state.msg = "+COIN",
                              !.state.msgT = ticks(30)]
               ELSE IF p.t = "heart"
               THEN [v EXCEPT !.player.hp = clamp(@ + p.v, 0, v.player.hpMax),
                              !.state.msg = "+HP", !.state.msgT = ticks(45)]
               ELSE v) EXCEPT !.state.pickups = splice(@, i)]
        ELSE v
      RECURSIVE loop(_, _)
      loop(v, i) == IF i < 1 THEN v ELSE loop(step(v, i, v.state.pickups[i]), i - 1)
  IN  loop(w, Len(w.state.pickups))

(***************************************************************************)
(* resetGame() and update(dt) of n.mjs                                     *)
(***************************************************************************)
\* resetGame(); the camera and the particle list state.fx are not kept.
resetGame_mjs(w, rnd) ==
  LET w1 == [w EXCEPT !.state = [paused |-> FALSE, shopOpen |-> FALSE, msg |-> "", msgT |-> 0,
                                 coins |-> 0, roomId |-> <<0, 0>>, cam |-> w.state.cam,
                                 map |-> <<>>, rooms |-> <<>>, enemies |-> <<>>,
                                 bullets |-> <<>>, pickups |-> <<>>],
                      !.WEAPONS = <<TRUE, FALSE, FALSE, FALSE, FALSE, FALSE, FALSE>>,
                      !.player = [x |-> G_mjs.ROOM_W \div 2, y |-> G_mjs.ROOM_H \div 2, r |-> 13,
                                  hp |-> 8, hpMax |-> 8, invT |-> 0, dashT |-> 0,
                                  dashCD |-> 0, vx |-> 0, vy |-> 0,
                                  weapon |-> 0, fireCD |-> 0, burstQ |-> 0, burstCD |-> 0],
                      !.ev.op = "reset", !.ev.moves = 0, !.ev.left = <<>>]
  IN  loadRoom_mjs(ensureRoom_mjs(ensureNode_mjs(w1, <<0, 0>>), <<0, 0>>), <<0, 0>>, rnd)

RECURSIVE doorIntents_mjs(_, _, _, _, _)
\* The four door-intent checks of update(), north, south, west, east; the
\* first successful transition ends them.
doorIntents_mjs(w, i, nxp, nyp, rnd) ==
  LET dir == <<"N", "S", "W", "E">>[i]
      pushing == CASE i = 1 -> w.player.vy < 0 /\ nyp <= 2
                   [] i = 2 -> w.player.vy > 0 /\ nyp >= G_mjs.ROOM_H - 2
                   [] i = 3 -> w.player.vx < 0 /\ nxp <= 2
                   [] OTHER -> w.player.vx > 0 /\ nxp >= G_mjs.ROOM_W - 2
      next(w1) == IF w1.ev.trans # "none" THEN w1 ELSE doorIntents_mjs(w1, i + 1, nxp, nyp, rnd)
  IN  IF i > 4 THEN w
      ELSE IF pushing /\ inDoorBand(G_mjs, dir, w.player.x, w.player.y)
      THEN next(tryDoorTransitionByIntent_mjs(w, dir, rnd))
      ELSE next(w)

\* update(dt).  With dt = 2/95 s: 190 px/s is 4 px per tick, the dash speed
\* of 820 px/s is 17 whole px per tick, lerp(v, 0, 10 * dt) is v * 15/19 and
\* lerp(v, 0, 5 * dt) is v * 17/19.  The inputs dash with a movement key
\* held, so the aim-at-the-mouse branch of the dash is not taken.
update_mjs(w, in, rnd) ==
  LET esc(v) == IF in.key # "ESC" THEN v
                ELSE IF v.state.paused THEN [v EXCEPT !.state.paused = FALSE]
                ELSE IF v.state.shopOpen THEN [v EXCEPT !.state.shopOpen = FALSE]
                ELSE [v EXCEPT !.state.paused = TRUE]
      restart(v) == IF in.key = "R" THEN resetGame_mjs(v, rnd) ELSE v
      timers(a2) ==
        [a2 EXCEPT !.state.msgT = countdown(@),
                   !.state.msg = IF a2.state.msgT > 1 THEN @ ELSE "",
                   !.player.invT = countdown(@), !.player.fireCD = countdown(@),
                   !.player.dashT = countdown(@), !.player.dashCD = countdown(@),
                   !.player.burstCD = countdown(@),
                   !.state.cam.shakeT = countdown(@),
                   !.state.cam.shake = IF a2.state.cam.shakeT > 0 THEN @ ELSE 0]
      open(a3) == IF in.key = "F" /\ a3.state.map[a3.state.roomId].kind = "shop"
                  THEN tryOpenShop_mjs(a3) ELSE a3
      buy(a4) == IF in.key \in {"1", "2", "3", "4", "5", "6", "7"}
                 THEN buyShopItem_mjs(a4, SHOP_ITEMS_mjs[
                        CASE in.key = "1" -> 1 [] in.key = "2" -> 2 [] in.key = "3" -> 3
                          [] in.key = "4" -> 4 [] in.key = "5" -> 5 [] in.key = "6" -> 6
                          [] OTHER -> 7])
                 ELSE a4
      cycle(b0) == IF in.key = "Q" THEN cycleWeapon_mjs(b0, -1)
                   ELSE IF in.key = "E" THEN cycleWeapon_mjs(b0, 1) ELSE b0
      dash(b1) ==
        IF in.dash /\ b1.player.dashCD <= 0
        THEN shake([b1 EXCEPT !.player.dashT = ticks(14), !.player.dashCD = ticks(80),
                              !.player.vx = dxOf(in.move) * 17,
                              !.player.vy = dyOf(in.move) * 17], 5, 10)
        ELSE b1
      steer(b2) ==
        IF b2.player.dashT > 0
        THEN [b2 EXCEPT !.player.vx = toInt(@ * 17, 19), !.player.vy = toInt(@ * 17, 19)]
        ELSE IF in.move # "none"
        THEN [b2 EXCEPT !.player.vx = dxOf(in.move) * 4, !.player.vy = dyOf(in.move) * 4]
        ELSE [b2 EXCEPT !.player.vx = toInt(@ * 15, 19), !.player.vy = toInt(@ * 15, 19)]
      fire(b3) == updateBurst_mjs(IF in.mouse THEN shoot_mjs(b3) ELSE b3)
      clear(c2) ==
        IF /\ ~c2.state.map[c2.state.roomId].cleared
           /\ c2.state.map[c2.state.roomId].kind = "combat"
           /\ Len(c2.state.enemies) = 0
        THEN [lockDoors([c2 EXCEPT !.state.map[c2.state.roomId].cleared = TRUE,
                                   !.state.msg = "CLEARED", !.state.msgT = ticks(90)],
                        c2.state.roomId, FALSE)
                EXCEPT !.state.pickups = Append(@,
                  [x |-> G_mjs.ROOM_W \div 2, y |-> G_mjs.ROOM_H \div 2,
                   t |-> "coin", v |-> 6, r |-> 10])]
        ELSE c2
      sim(c1) == phase(clear(phase(updatePickups_mjs(updateBullets_mjs(
                   updateEnemies_mjs(c1, rnd), rnd)), "sim")), "clear")
      rest(b4, b5) ==
        IF b5.ev.trans # "none" THEN b5
        ELSE sim(phase(moveWithCollision(G_mjs, b5, b4.player.x + b4.player.vx,
                                         b4.player.y + b4.player.vy), "move"))
      doors(b4) == rest(b4, phase(doorIntents_mjs(b4, 1, b4.player.x + b4.player.vx,
                                                  b4.player.y + b4.player.vy, rnd), "door"))
      play(a5) == IF a5.state.map[a5.state.roomId].kind = "shop" /\ a5.state.shopOpen
                  THEN buy(a5)
                  ELSE doors(fire(steer(dash(cycle(a5)))))
  IN  IF w.state.paused
      THEN restart(esc(evReset(w, "update")))
      ELSE play(open(timers(restart(esc(evReset(w, "update"))))))

(***************************************************************************)
(* Specification of n.mjs: Game.create() then frames.                      *)
(***************************************************************************)
fullHp_mjs(w) ==
  [chaser |-> 9 + toInt(w.state.map[w.state.roomId].depth, 3),
   shooter |-> 10 + toInt(w.state.map[w.state.roomId].depth, 3),
   boss |-> 140 + w.state.map[w.state.roomId].depth * 6,
   n |-> IF shouldSpawnBoss_mjs(w.state.map[w.state.roomId]) THEN 1
         ELSE 4 + toInt(w.state.map[w.state.roomId].depth, 4)]

PressKeys_mjs(w) ==
  {"none", "R"}
  \cup (IF w.state.paused \/ w.state.shopOpen \/ (standing(w) /\ calm(w, fullHp_mjs(w)))
        THEN {"ESC"} ELSE {})
  \cup (IF ~w.state.paused /\ w.state.map[w.state.roomId].kind = "shop"
        THEN (IF standing(w) \/ nearShopCounter_mjs(w) THEN {"F"} ELSE {})
             \cup (IF w.state.shopOpen THEN {"1", "2", "3", "4", "5", "6", "7"} ELSE {})
        ELSE {})
  \cup (IF ~w.state.paused /\ ~w.state.shopOpen /\ \E i \in 2..Len(w.WEAPONS) : w.WEAPONS[i]
        THEN {"Q", "E"} ELSE {})

Inputs_mjs(w) ==
  {in \in [key : PressKeys_mjs(w), move : MoveKeys(G_mjs, w, calm(w, fullHp_mjs(w))),
           mouse : BOOLEAN, dash : BOOLEAN] :
     /\ in.key # "none" => ~in.mouse /\ ~in.dash
     /\ in.key \notin {"none", "F"} => in.move = "none"
     /\ in.mouse => mayShoot(w, in.move, WeaponData_mjs[w.player.weapon + 1].pellets)
     /\ in.dash => mayDash(G_mjs, w, in.move)}

Init_mjs ==
  LET w == resetGame_mjs(Declared, NoRnd)
  IN  /\ state = w.state
      /\ player = w.player
      /\ WEAPONS = w.WEAPONS
      /\ ev = [w.ev EXCEPT !.op = "init"]

\* One frame: update(dt) with the keys and mouse of that frame.
Update_mjs ==
  \E in \in Inputs_mjs(World) : \E rnd \in Rnds(G_mjs, World, in, fullHp_mjs(World)) :
    \E w \in {update_mjs(World, in, rnd)} :
      /\ ev.moves < MaxMoves
      /\ Len(w.state.bullets) <= MaxBullets
      /\ Becomes(w)

Next_mjs == Update_mjs

Spec_mjs == Init_mjs /\ [][Next_mjs]_vars

(***************************************************************************)
(* Properties of n.mjs                                                     *)
(***************************************************************************)
\* C13: after every successful room transition the active room is the
\* neighbour in the direction of travel, the bullet list is empty, the camera
\* shake and its timer are zero, and the player stands just inside the
\* opposite boundary with the perpendicular coordinate clamped into the room.
C13_AfterTransition ==
  [][ev'.trans # "none" =>
       LET d == ev'.trans
       IN  /\ state'.roomId = roomKey(state.roomId[1] + dxOf(d), state.roomId[2] + dyOf(d))
           /\ state'.bullets = <<>>
           /\ state'.cam.shake = 0 /\ state'.cam.shakeT = 0
           /\ player'.x = placeInside(G_mjs, [player' EXCEPT !.x = player.x, !.y = player.y], d).x
           /\ player'.y = placeInside(G_mjs, [player' EXCEPT !.x = player.x, !.y = player.y], d).y]_vars

\* C2: when the player enters a room they left earlier in the run, the live
\* enemy list and the live pickup list are equal, element for element, to
\* the lists the room had when the player left it.
C2_CacheRoundTrip ==
  (ev.trans # "none" /\ state.roomId \in DOMAIN ev.left) =>
    /\ state.enemies = ev.left[state.roomId].enemies
    /\ state.pickups = ev.left[state.roomId].pickups

(***************************************************************************)
(* n.js: the room kinds are rolled when a room is first populated, the     *)
(* door check runs after the player has moved, and frame() clears the      *)
(* pressed-key flags before it calls update().  Geometry, tiles, collision,*)
(* room cache, lockDoors, hurtPlayer and updateBullets are those of        *)
(* part_000.                                                               *)
(***************************************************************************)
\* Room transitions explored per run of n.js.
MaxMoves_js == 4

\* A transition places the player 14 px inside the new room.
G_js == [G_p0 EXCEPT !.inset = 14]

\* ensureNode(id)
ensureNode_js(w, id) ==
  IF id \in DOMAIN w.state.map THEN w
  ELSE [w EXCEPT !.state.map = @ @@ (id :>
          [x |-> id[1], y |-> id[2], kind |-> "combat", seen |-> FALSE,
           cleared |-> FALSE, locked |-> FALSE])]

\* spawnEnemy(type, x, y)
spawnEnemy_js(w, type, x, y) ==
  [w EXCEPT !.state.enemies = Append(@,
     [type |-> type, x |-> x, y |-> y, r |-> IF type = "boss" THEN 18 ELSE 10,
      hp |-> IF type = "boss" THEN 30 ELSE IF type = "shooter" THEN 6 ELSE 5])]

\* spawnRoomContents(roomId): the kind of a room away from the start is
\* rolled here, chance(0.10) for treasure from distance 4 and chance(0.06)
\* for boss from distance 6, and a treasure room's lock with chance(0.45).
spawnRoomContents_js(w, id, rnd) ==
  LET d == abs(id[1]) + abs(id[2])
      kind == IF id = <<0, 0>> THEN "start"
              ELSE IF w.state.map[id].kind = "combat"
              THEN (IF d >= 4 /\ rnd.treasure THEN "treasure"
                    ELSE IF d >= 6 /\ rnd.boss THEN "boss" ELSE "combat")
              ELSE w.state.map[id].kind
      RECURSIVE spawn(_, _, _)
      spawn(v, i, n) ==
        IF i >= n THEN v
        ELSE LET slot == EnemySlots[(i % Len(EnemySlots)) + 1]
             IN  spawn(spawnEnemy_js(v, IF i = 0 /\ rnd.shooter THEN "shooter" ELSE "chaser",
                                     slot[1], slot[2]), i + 1, n)
      populate(w1) ==
        IF kind = "start"
        THEN [w1 EXCEPT !.state.pickups = Append(@, [x |-> ROOM_W \div 2 + 40, y |-> ROOM_H \div 2,
                                                     t |-> "heart", v |-> 1, r |-> 7]),
                        !.state.map[id].cleared = TRUE]
        ELSE IF kind = "treasure"
        THEN [w1 EXCEPT !.state.pickups =
                          @ \o <<[x |-> ROOM_W \div 2, y |-> ROOM_H \div 2,
                                  t |-> "key", v |-> 1, r |-> 7],
                                 [x |-> ROOM_W \div 2 + 28, y |-> ROOM_H \div 2,
                                  t |-> "heart", v |-> 2, r |-> 7]>>,
                        !.state.map[id].cleared = TRUE]
        ELSE IF w1.state.map[id].cleared THEN w1
        ELSE IF kind = "boss"
        THEN lockDoors(spawnEnemy_js(w1, "boss", ROOM_W \div 2, ROOM_H \div 2 - 50), id, TRUE)
        ELSE lockDoors(spawn(w1, 0, 4 + rnd.randi4), id, TRUE)
      lock(w0) ==
        IF kind = "treasure" /\ ~w0.state.map[id].cleared
        THEN [w0 EXCEPT !.state.map[id].locked = rnd.locked] ELSE w0
  IN  populate([lock(ensureRoom(ensureNode_js(w, id), id)) EXCEPT
                  !.state.map[id].kind = kind,
                  !.state.enemies = <<>>, !.state.bullets = <<>>,
                  !.state.pickups = <<>>, !.state.decals = <<>>])

\* buildNeighborsAround(id) with its nested maybeMake: a neighbour within
\* distance 8 is made when rnd.make[dir] is drawn, and always around the
\* start room.
buildNeighborsAround_js(w, id, rnd) ==
  LET maybeMake(v, dir) ==
        LET nid == roomKey(id[1] + dxOf(dir), id[2] + dyOf(dir))
        IN  IF abs(nid[1]) + abs(nid[2]) > 8 THEN v
            ELSE IF v.state.rooms[id].neighbors[dir] THEN v
            ELSE IF rnd.make[dir] \/ id = <<0, 0>>
            THEN [ensureRoom(ensureNode_js([v EXCEPT !.state.rooms[id].neighbors[dir] = TRUE],
                                           nid), nid)
                    EXCEPT !.state.rooms[nid].neighbors[opposite(dir)] = TRUE]
            ELSE v
  IN  genRoomTiles(maybeMake(maybeMake(maybeMake(maybeMake(
        ensureRoom(ensureNode_js(w, id), id), "N"), "S"), "W"), "E"), id, rnd)

\* loadRoom(roomId)
loadRoom_js(w, id, rnd) ==
  LET clear(w2) == [w2 EXCEPT !.state.enemies = <<>>, !.state.bullets = <<>>,
                              !.state.pickups = <<>>, !.state.decals = <<>>]
      fill(w3) ==
        IF Len(w3.state.rooms[id].cache) > 0
        THEN [w3 EXCEPT !.state.enemies = w3.state.rooms[id].cache[1].enemies,
                        !.state.pickups = w3.state.rooms[id].cache[1].pickups,
                        !.state.decals = w3.state.rooms[id].cache[1].decals]
        ELSE spawnRoomContents_js(w3, id, rnd)
      finish(w4) ==
        [lockDoors(w4, id, ~w4.state.map[id].cleared
                           /\ w4.state.map[id].kind \in {"combat", "boss"})
           EXCEPT !.state.map[id].seen = TRUE]
  IN  finish(fill(clear(genRoomTiles(
        buildNeighborsAround_js(ensureNode_js(ensureRoom(w, id), id), id, rnd), id, rnd))))

\* tryDoorTransition() with its nested canGo, bounceInside and go.  ev.kinds
\* keeps, over all runs, the kind each coordinate had when it was first
\* entered.
tryDoorTransition_js(w, rnd) ==
  LET id  == w.state.roomId
      inTopDoor  == abs(w.player.x - ROOM_W \div 2) < 22
      inLeftDoor == abs(w.player.y - ROOM_H \div 2) < 22
      dir == IF w.player.y < 0 /\ inTopDoor THEN "N"
             ELSE IF w.player.y > ROOM_H /\ inTopDoor THEN "S"
             ELSE IF w.player.x < 0 /\ inLeftDoor THEN "W"
             ELSE IF w.player.x > ROOM_W /\ inLeftDoor THEN "E"
             ELSE "none"
      nid == roomKey(id[1] + dxOf(dir), id[2] + dyOf(dir))
      bounceInside(v) ==
        CASE dir = "N" -> [v EXCEPT !.player.y = 2]
          [] dir = "S" -> [v EXCEPT !.player.y = ROOM_H - 2]
          [] dir = "W" -> [v EXCEPT !.player.x = 2]
          [] OTHER     -> [v EXCEPT !.player.x = ROOM_W - 2]
      arrive(w3) ==
        [w3 EXCEPT !.player = placeInside(G_js, @, dir),
                   !.state.cam.shake = 0, !.state.cam.shakeT = 0,
                   !.ev.trans = dir, !.ev.moves = @ + 1,
                   !.ev.kinds = IF nid \in DOMAIN @ THEN @
                                ELSE (nid :> w3.state.map[nid].kind) @@ @]
      enter(v) == arrive(loadRoom_js([stashRoom(v, id) EXCEPT !.state.roomId = nid], nid, rnd))
      go(w1) ==
        IF ~(w1.state.rooms[id].neighbors[dir] /\ w1.state.rooms[id].doorsOpen[dir])
        THEN bounceInside(w1)
        ELSE IF /\ w1.state.map[nid].kind = "treasure" /\ w1.state.map[nid].locked
                /\ ~w1.state.map[nid].cleared
        THEN (IF w1.state.keys <= 0
              THEN bounceInside([w1 EXCEPT !.state.msg = "TREASURE LOCKED", !.state.msgT = ticks(120)])
              ELSE enter([w1 EXCEPT !.state.keys = @ - 1, !.state.map[nid].locked = FALSE,
                                    !.state.msg = "LOCK UNSEALED", !.state.msgT = ticks(100)]))
        ELSE enter(w1)
  IN  IF dir = "none" THEN w
      ELSE go(ensureRoom(ensureNode_js([w EXCEPT !.ev.tried = @ \cup {dir}], nid), nid))

\* shoot(): weapon 0 is the pistol, any other the shotgun.
shoot_js(w) ==
  LET RECURSIVE pellets(_, _)
      pellets(v, n) == IF n = 0 THEN v ELSE pellets(spawnBullet(v, 1, "player", 110), n - 1)
  IN  IF w.player.fireCD > 0 THEN w
      ELSE IF w.player.weapon = 0
      THEN shake([spawnBullet(w, 2, "player", 110) EXCEPT !.player.fireCD = ticks(18)], 2, 8)
      ELSE shake([pellets(w, 5) EXCEPT !.player.fireCD = ticks(55)], 4, 10)

\* updateEnemies(dt), last enemy first.  Enemy motion is not followed:
\* whether a shooter or the boss fires and whether an enemy touches the
\* player are outcomes in `rnd`.
updateEnemies_js(w, rnd) ==
  LET RECURSIVE volley(_, _)
      volley(v, n) == IF n = 0 THEN v ELSE volley(spawnBullet(v, 1, "enemy", 160), n - 1)
      step(v0, i) ==
        LET e == v0.state.enemies[i]
            fire(v) == IF ~rnd.efire THEN v
                       ELSE IF e.type = "shooter" THEN spawnBullet(v, 1, "enemy", 160)
                       ELSE IF e.type = "boss" THEN shake(volley(v, 10), 5, 14)
                       ELSE v
            touch(v) == IF rnd.touch /\ i = Len(w.state.enemies) THEN hurtPlayer(v, 1) ELSE v
            death(v) ==
              [v EXCEPT !.state.decals = Append(@, [x |-> e.x, y |-> e.y]),
                        !.state.pickups =
                          IF rnd.heart
                          THEN Append(@, [x |-> e.x, y |-> e.y, t |-> "heart", v |-> 1, r |-> 7])
                          ELSE @,
                        !.state.enemies = splice(@, i), !.ev.removed = @ + 1]
        IN  IF e.hp <= 0 THEN death(touch(fire(v0))) ELSE touch(fire(v0))
      RECURSIVE loop(_, _)
      loop(v, i) == IF i < 1 THEN v ELSE loop(step(v, i), i - 1)
  IN  loop(w, Len(w.state.enemies))

\* updatePickups(dt), last pickup first.
updatePickups_js(w) ==
  LET step(v, i) ==
        LET p == v.state.pickups[i]
            reach == p.r + v.player.r + 4
            take(u) == [u EXCEPT !.state.pickups = splice(@, i)]
        IN  IF dist2(p.x, p.y, v.player.x, v.player.y) < reach * reach
            THEN (IF p.t = "key"
                  THEN take([v EXCEPT !.state.keys = @ + p.v, !.state.msg = "+KEY",
                                      !.state.msgT = ticks(70)])
                  ELSE IF p.t = "heart"
                  THEN take([v EXCEPT !.player.hp = clamp(@ + p.v, 0, v.player.hpMax),
                                      !.state.msg = "+HEALTH", !.state.msgT = ticks(70)])
                  ELSE take(v))
            ELSE v
      RECURSIVE loop(_, _)
      loop(v, i) == IF i < 1 THEN v ELSE loop(step(v, i), i - 1)
  IN  loop(w, Len(w.state.pickups))

\* resetGame(); state.cam is left as it is.
resetGame_js(w, rnd) ==
  LET w1 == [w EXCEPT !.state = [paused |-> FALSE, msg |-> "", msgT |-> 0, keys |-> 0,
                                 roomId |-> <<0, 0>>, cam |-> w.state.cam,
                                 map |-> <<>>, rooms |-> <<>>, enemies |-> <<>>,
                                 bullets |-> <<>>, pickups |-> <<>>, decals |-> <<>>],
                      !.player = [x |-> ROOM_W \div 2, y |-> ROOM_H \div 2, r |-> 8,
                                  hp |-> 6, hpMax |-> 6, invT |-> 0, dashT |-> 0,
                                  dashCD |-> 0, vx |-> 0, vy |-> 0,
                                  weapon |-> 0, fireCD |-> 0],
                      !.ev.op = "reset", !.ev.moves = 0]
  IN  loadRoom_js(ensureRoom(ensureNode_js(w1, <<0, 0>>), <<0, 0>>), <<0, 0>>, rnd)

\* update(dt) with dt = 3/140 s, so that player.speed = 140 is 3 px per
\* tick and the dash speed 620 is 13.  in.key and in.dash are the keys
\* wasPressed() reports, in.r is keys[82] (R held).
update_js(w, in, rnd) ==
  LET sp == 3
      id0 == w.state.roomId
      unpause(v) == IF in.key = "ESC" THEN [v EXCEPT !.state.paused = FALSE] ELSE v
      restart(v) == IF in.r THEN resetGame_js(v, rnd) ELSE v
      pause(v) == IF in.key = "ESC" THEN [v EXCEPT !.state.paused = TRUE] ELSE v
      swap(v) == IF in.key = "Q" THEN [v EXCEPT !.player.weapon = 0]
                 ELSE IF in.key = "E" THEN [v EXCEPT !.player.weapon = 1] ELSE v
      timers(v) ==
        [v EXCEPT !.state.msgT = countdown(@), !.player.invT = countdown(@),
                  !.player.fireCD = countdown(@), !.player.dashT = countdown(@),
                  !.player.dashCD = countdown(@)]
      dash(v) ==
        IF in.dash /\ v.player.dashCD <= 0
        THEN shake([v EXCEPT !.player.dashT = ticks(12), !.player.dashCD = ticks(75),
                             !.player.vx = dxOf(in.move) * 13,
                             !.player.vy = dyOf(in.move) * 13], 3, 8)
        ELSE v
      steer(v) ==
        IF v.player.dashT <= 0
        THEN (IF in.move # "none"
              THEN [v EXCEPT !.player.vx = dxOf(in.move) * sp, !.player.vy = dyOf(in.move) * sp]
              ELSE [v EXCEPT !.player.vx = toInt(@ * 11, 14), !.player.vy = toInt(@ * 11, 14)])
        ELSE [v EXCEPT !.player.vx = toInt(@ * 32, 35), !.player.vy = toInt(@ * 32, 35)]
      fire(v) == IF in.mouse THEN shoot_js(v) ELSE v
      move(v) == phase(moveWithCollision(G_js, v, v.player.x + v.player.vx,
                                         v.player.y + v.player.vy), "move")
      door(v) == phase(tryDoorTransition_js(v, rnd), "door")
      shaking(v) == [v EXCEPT !.state.cam.shakeT = countdown(@),
                              !.state.cam.shake = IF v.state.cam.shakeT > 0 THEN @ ELSE 0]
      sim(v) == phase(updatePickups_js(updateBullets(updateEnemies_js(v, rnd), rnd)), "sim")
      \* `room` was read before the move: the doors opened are those of id0.
      clear(v) ==
        LET id == v.state.roomId
        IN  phase(IF /\ ~v.state.map[id].cleared /\ v.state.map[id].kind \in {"combat", "boss"}
                     /\ Len(v.state.enemies) = 0
                  THEN [lockDoors([v EXCEPT !.state.map[id].cleared = TRUE,
                                            !.state.msg = "ROOM CLEARED",
                                            !.state.msgT = ticks(90)], id0, FALSE)
                          EXCEPT !.state.pickups =
                            IF rnd.key
                            THEN Append(@, [x |-> ROOM_W \div 2, y |-> ROOM_H \div 2,
                                            t |-> "key", v |-> 1, r |-> 7])
                            ELSE @]
                  ELSE v, "clear")
  IN  IF w.state.paused
      THEN restart(unpause(evReset(w, "update")))
      ELSE clear(sim(shaking(door(move(fire(steer(dash(timers(swap(pause(
             evReset(w, "update"))))))))))))

\* frame(t): the pressed-key flags are cleared before update(dt) reads them.
frame_js(w, in, rnd) == update_js(w, [in EXCEPT !.key = "none", !.dash = FALSE], rnd)

(***************************************************************************)
(* Inputs and random outcomes explored in n.js.  The player walks the      *)
(* north-south centre line; the rooms made are those north of the room     *)
(* entered; a shooter is spawned only in the first room entered; a key     *)
(* drops only in room (0,-1) for a player without keys.                    *)
(***************************************************************************)
fullHp_js == [chaser |-> 5, shooter |-> 6, boss |-> 30, n |-> 4]

Inputs_js(w) ==
  LET moves == IF w.state.paused THEN {"none"}
               ELSE (IF standing(w) THEN {"none"} ELSE {})
                    \cup (IF calm(w, fullHp_js) /\ w.player.x = ROOM_W \div 2
                          THEN {"N", "S"} ELSE {})
      rest == ~w.state.paused /\ standing(w)
  IN  {in \in [key : {"none", "ESC"}, move : moves, mouse : BOOLEAN, dash : BOOLEAN,
               r : BOOLEAN] :
         /\ in.key # "none" => rest /\ in.move = "none" /\ ~in.mouse /\ ~in.dash
         /\ in.dash => rest /\ in.move = "none" /\ ~in.mouse
         /\ in.r => w.state.paused
         /\ in.mouse =>
              /\ rest /\ in.move = "none"
              /\ w.player.fireCD <= 1
              /\ Len(w.state.bullets) + 1 <= MaxBullets
              /\ w.player.hp >= w.player.hpMax - 1}

Rnds_js(w, in) ==
  LET live    == ~w.state.paused
      fight   == live /\ standing(w) /\ in.move = "none" /\ w.state.enemies # <<>>
      attack  == fight /\ ~in.mouse /\ untouched(w, fullHp_js)
      loads   == live /\ in.move = "N" /\ w.player.y - 3 < 0
      far     == abs(w.state.roomId[1]) + abs(w.state.roomId[2] - 1) >= 4
      dying   == live /\ Len(w.state.enemies) = 1 /\ w.state.enemies[1].hp <= 0
      hurt    == w.player.hp < w.player.hpMax /\ w.player.hp > 0
      shooter == \E i \in 1..Len(w.state.enemies) : w.state.enemies[i].type = "shooter"
      n       == Len(w.state.bullets)
      meets(i) == IF ~live \/ i > n + 1 THEN {"fly"}
                  ELSE IF ~fight THEN {"fly", "wall"}
                  ELSE {"fly", "wall", "hit"}
  IN  {r \in [pillar : {FALSE}, make : {[d \in Dirs |-> loads /\ d = "N"]},
              treasure : flag(loads /\ far), boss : {FALSE}, locked : flag(loads /\ far),
              shooter : flag(loads /\ w.ev.moves = 0), randi4 : {0},
              efire : flag(attack /\ shooter /\ n < MaxBullets), touch : flag(attack),
              heart : flag(dying /\ hurt),
              key : flag(dying /\ w.state.keys = 0 /\ w.state.roomId = <<0, -1>>),
              bo : [1..MaxBullets -> {"fly", "wall", "hit"}]] :
         /\ r.locked => r.treasure
         /\ \A i \in 1..MaxBullets : r.bo[i] \in meets(i)}

(***************************************************************************)
(* Specification of n.js: Game.create() then frames.                       *)
(***************************************************************************)
Init_js ==
  LET w == resetGame_js(Declared, NoRnd)
  IN  /\ state = w.state
      /\ player = w.player
      /\ WEAPONS = w.WEAPONS
      /\ ev = [w.ev EXCEPT !.op = "init"]

\* One frame with the keys and mouse of that frame.
Frame_js ==
  \E in \in Inputs_js(World) : \E rnd \in Rnds_js(World, in) :
    \E w \in {frame_js(World, in, rnd)} :
      /\ w.ev.moves <= MaxMoves_js
      /\ Len(w.state.bullets) <= MaxBullets
      /\ Becomes(w)

Next_js == Frame_js

Spec_js == Init_js /\ [][Next_js]_vars

(***************************************************************************)
(* Properties of n.js                                                      *)
(***************************************************************************)
\* C17: a tick whose transition attempt is rejected leaves a message on
\* display and changes nothing through the attempt: the active room, the set
\* of nodes and every room's snapshot are as before the tick, and the player
\* is still where the attempt was made from, beyond the boundary crossed.
C17_RejectedAttemptIsNoOp ==
  [][(ev'.tried # {} /\ ev'.trans = "none") =>
       /\ state'.msg # ""
       /\ state'.roomId = state.roomId
       /\ DOMAIN state'.map = DOMAIN state.map
       /\ \A id \in DOMAIN state.rooms : state'.rooms[id].cache = state.rooms[id].cache
       /\ \A d \in ev'.tried :
            CASE d = "N" -> player'.y < 0
              [] d = "S" -> player'.y > ROOM_H
              [] d = "W" -> player'.x < 0
              [] OTHER   -> player'.x > ROOM_W]_vars

\* C5: the kind stored on every node that has been entered is a fixed
\* function of its coordinate: it equals the kind the same coordinate had
\* when it was first entered, in this run or in an earlier one.
C5_KindIsFunctionOfCoordinate ==
  \A id \in DOMAIN state.map :
    (state.map[id].seen /\ id \in DOMAIN ev.kinds) => state.map[id].kind = ev.kinds[id]

\* C9: a locked treasure room is entered only by unsealing it with a key:
\* after a transition into a treasure room its node is not locked.
C9_LockedTreasureNeedsKey ==
  (ev.trans # "none" /\ nodeNow.kind = "treasure") => ~nodeNow.locked

\* C10: a tick that runs the simulation has resolved the door intent first,
\* then moved the player, then run the enemies, bullets and pickups, then
\* the clear check.
C10_TickOrder ==
  (ev.op = "update" /\ Len(ev.phase) > 1) => ev.phase = <<"door", "move", "sim", "clear">>

(***************************************************************************)
(* The second program of part_001: room kinds are a function of the        *)
(* coordinate.  isShopCoord is that of part_000.                           *)
(***************************************************************************)
\* Coordinates classified reach this Manhattan distance (the source's
\* MAX_DEPTH is 10).
MaxRing_p1 == 5

\* Nodes classified in one behaviour.
MaxNodes_p1 == 2

\* isHealCoord(x, y)
isHealCoord_p1(x, y) ==
  LET d == abs(x) + abs(y)
  IN  IF d < 2 THEN FALSE
      ELSE IF x >= 0 /\ y >= 0 THEN x = d - 1 /\ y = 1
      ELSE IF x <= 0 /\ y >= 0 THEN x = -1 /\ y = d - 1
      ELSE IF x <= 0 /\ y <= 0 THEN x = -(d - 1) /\ y = -1
      ELSE x = 1 /\ y = -(d - 1)

\* isArmoryCoord(x, y); JavaScript's % keeps the sign of the dividend.
isArmoryCoord_p1(x, y) ==
  LET d == abs(x) + abs(y)
      h == x * 31 + y * 17 + d * 13
      rem == IF h >= 0 THEN h % 11 ELSE -((-h) % 11)
  IN  IF d < 3 THEN FALSE
      ELSE IF (rem + 11) % 11 # 0 THEN FALSE
      ELSE ~(isShopCoord(x, y) \/ isHealCoord_p1(x, y))

\* assignRoomKind(node)
assignRoomKind_p1(node) ==
  IF <<node.x, node.y>> = <<0, 0>> THEN "start"
  ELSE IF isShopCoord(node.x, node.y) THEN "shop"
  ELSE IF isHealCoord_p1(node.x, node.y) THEN "heal"
  ELSE IF isArmoryCoord_p1(node.x, node.y) THEN "armory"
  ELSE "combat"

\* ensureNode(id), which is that of n.mjs, followed by loadRoom's
\* node.kind = assignRoomKind(node).
classify_p1(w, id) ==
  LET w1 == ensureNode_mjs(w, id)
  IN  [w1 EXCEPT !.state.map[id].kind = assignRoomKind_p1(w1.state.map[id]),
                 !.ev.op = "classify"]

Init_p1 ==
  /\ state = [map |-> <<>>]
  /\ player = <<>>
  /\ WEAPONS = <<>>
  /\ ev = Declared.ev

\* A coordinate within MaxRing_p1 is classified.
Classify_p1 ==
  \E x \in -MaxRing_p1..MaxRing_p1 : \E y \in -MaxRing_p1..MaxRing_p1 :
    /\ abs(x) + abs(y) <= MaxRing_p1
    /\ roomKey(x, y) \notin DOMAIN state.map
    /\ Cardinality(DOMAIN state.map) < MaxNodes_p1
    /\ Becomes(classify_p1(World, roomKey(x, y)))

Next_p1 == Classify_p1

Spec_p1 == Init_p1 /\ [][Next_p1]_vars

\* C6: two classified coordinates of the same depth ring are not both shop
\* and not both heal, and the only coordinate classified start is (0,0).
C6_OneShopOneHealPerRing ==
  /\ \A a \in DOMAIN state.map : \A b \in DOMAIN state.map :
       (/\ state.map[a].depth = state.map[b].depth
        /\ state.map[a].kind = state.map[b].kind
        /\ state.map[a].kind \in {"shop", "heal"}) => a = b
  /\ \A a \in DOMAIN state.map : state.map[a].kind = "start" => a = <<0, 0>>

(***************************************************************************)
(* The second program of part_001, its rooms: heal fountains, armory       *)
(* chests and the room cache.  Positions, tiles and bullets are not        *)
(* followed: the place the player stands at (in.near), the door the player *)
(* pushes through (in.go), the enemies whose hp the bullets have brought   *)
(* to 0 (rnd.dead), the enemy that touches the player (rnd.touch) and the  *)
(* pickups in reach (rnd.reach) are inputs of a tick.  node.flags is the   *)
(* set of the flag names that are set.  ensureRoom and stashRoom are those *)
(* of part_000.                                                            *)
(***************************************************************************)
\* Door transitions in one behaviour.
MaxMoves_p1r == 5

\* The rooms the player visits: the start room, the shop south of it, the
\* combat rooms east of it, the heal room (1,1), the combat room south of
\* that and the armory (3,0).
Visited_p1r == {<<0, 0>>, <<0, 1>>, <<1, 0>>, <<2, 0>>, <<3, 0>>, <<1, 1>>, <<1, 2>>}

\* Enemies that spawnRoomContents places in a combat room (the source
\* places 4 to 8).
Spawned_p1r == 2

\* ensureNode(id)
ensureNode_p1(w, id) ==
  IF id \in DOMAIN w.state.map THEN w
  ELSE [w EXCEPT !.state.map = @ @@ (id :>
          [x |-> id[1], y |-> id[2], depth |-> abs(id[1]) + abs(id[2]),
           kind |-> "combat", seen |-> FALSE, cleared |-> FALSE, flags |-> {}])]

\* A spawnRoomContents that treats every room as a combat room.
spawnRoomContentsAllCombat(w, id, rnd) ==
  LET v == [ensureRoom(ensureNode_p1(w, id), id)
              EXCEPT !.state.map[id].kind = assignRoomKind_p1(ensureNode_p1(w, id).state.map[id]),
                     !.state.enemies = <<>>, !.state.pickups = <<>>]
  IN  IF ~v.state.map[id].cleared
      THEN [v EXCEPT !.state.enemies = [i \in 1..rnd.n |-> [type |-> "chaser"]],
                     !.state.rooms[id].doorsOpen = allDoors(FALSE)]
      ELSE [v EXCEPT !.state.rooms[id].doorsOpen = allDoors(TRUE)]

\* spawnRoomContents(roomId)
spawnRoomContents_p1(w, id, rnd) ==
  LET v == [ensureRoom(ensureNode_p1(w, id), id)
              EXCEPT !.state.map[id].kind = assignRoomKind_p1(ensureNode_p1(w, id).state.map[id]),
                     !.state.enemies = <<>>, !.state.pickups = <<>>]
      node == v.state.map[id]
  IN  IF node.kind \in {"start", "shop", "heal", "armory"}
      THEN [v EXCEPT !.state.map[id].cleared = TRUE,
                     !.state.rooms[id].doorsOpen = allDoors(TRUE),
                     !.state.pickups = IF node.kind = "start" THEN <<[t |-> "coin", v |-> 3]>>
                                       ELSE <<>>]
      ELSE IF ~node.cleared
      THEN [v EXCEPT !.state.enemies = [i \in 1..rnd.n |-> [type |-> "chaser"]],
                     !.state.rooms[id].doorsOpen = allDoors(FALSE)]
      ELSE [v EXCEPT !.state.rooms[id].doorsOpen = allDoors(TRUE)]

\* loadRoom(roomId), with the links of buildNeighborsAround (MAX_DEPTH is
\* beyond the rooms visited).
loadRoom_p1(w, id, rnd) ==
  LET nb(dir) == roomKey(id[1] + dxOf(dir), id[2] + dyOf(dir))
      link(v, dir) ==
        [ensureRoom(ensureNode_p1([v EXCEPT !.state.rooms[id].neighbors[dir] = TRUE],
                                  nb(dir)), nb(dir))
           EXCEPT !.state.rooms[nb(dir)].neighbors[opposite(dir)] = TRUE]
      kind(v) == [v EXCEPT !.state.map[id].kind = assignRoomKind_p1(v.state.map[id])]
      fill(v) ==
        IF v.state.rooms[id].cache # <<>>
        THEN [v EXCEPT !.state.enemies = v.state.rooms[id].cache[1].enemies,
                       !.state.pickups = v.state.rooms[id].cache[1].pickups,
                       !.state.decals = v.state.rooms[id].cache[1].decals]
        ELSE spawnRoomContents_p1(v, id, rnd)
      doors(v) ==
        [v EXCEPT !.state.rooms[id].doorsOpen =
                    allDoors(~(~v.state.map[id].cleared /\ v.state.map[id].kind = "combat")),
                  !.state.map[id].seen = TRUE, !.state.shopOpen = FALSE]
  IN  doors(fill([link(link(link(link(kind(ensureNode_p1(ensureRoom(w, id), id)),
                                      "N"), "S"), "W"), "E")
                    EXCEPT !.state.enemies = <<>>, !.state.pickups = <<>>,
                           !.state.decals = <<>>]))

\* A fountain that heals whenever the player stands by it.
useFountainAgain(w, in) ==
  LET node == w.state.map[w.state.roomId]
  IN  IF node.kind # "heal" THEN w
      ELSE IF in.near # "fountain" THEN [w EXCEPT !.state.msg = "STAND BY THE FOUNTAIN"]
      ELSE shake([w EXCEPT !.state.map[w.state.roomId].flags = @ \cup {"fountainUsed"},
                           !.player.hp = w.player.hpMax, !.state.msg = "FULL HEAL"], 2, 10)

\* useFountain()
useFountain_p1(w, in) ==
  LET node == w.state.map[w.state.roomId]
  IN  IF node.kind # "heal" THEN w
      ELSE IF in.near # "fountain" THEN [w EXCEPT !.state.msg = "STAND BY THE FOUNTAIN"]
      ELSE IF "fountainUsed" \in node.flags THEN [w EXCEPT !.state.msg = "FOUNTAIN DRIED"]
      ELSE shake([w EXCEPT !.state.map[w.state.roomId].flags = @ \cup {"fountainUsed"},
                           !.player.hp = w.player.hpMax, !.state.msg = "FULL HEAL"], 2, 10)

\* openArmory(); rnd.pick is the draw randi(candidates.length).
openArmory_p1(w, in, rnd) ==
  LET node == w.state.map[w.state.roomId]
      candidates == SelectSeq([i \in 1..Len(w.WEAPONS) |-> i], LAMBDA i : ~w.WEAPONS[i].unlocked)
      used == [w EXCEPT !.state.map[w.state.roomId].flags = @ \cup {"armoryUsed"}]
  IN  IF node.kind # "armory" THEN w
      ELSE IF in.near # "chest" THEN [w EXCEPT !.state.msg = "GET CLOSER"]
      ELSE IF "armoryUsed" \in node.flags THEN [w EXCEPT !.state.msg = "EMPTY"]
      ELSE IF candidates = <<>>
      THEN [used EXCEPT !.state.coins = @ + 10, !.state.msg = "FOUND COINS"]
      ELSE [used EXCEPT !.WEAPONS[candidates[1 + (rnd.pick % Len(candidates))]].unlocked = TRUE,
                        !.state.msg = "FOUND"]

\* SHOP_ITEMS
SHOP_ITEMS_p1 ==
  <<[cost |-> 8,  type |-> "unlock", weaponId |-> 1, amount |-> 0],
    [cost |-> 14, type |-> "unlock", weaponId |-> 2, amount |-> 0],
    [cost |-> 4,  type |-> "heal",   weaponId |-> 0, amount |-> 2],
    [cost |-> 18, type |-> "maxhp",  weaponId |-> 0, amount |-> 1]>>

\* A shop that sells the heal and the max-hp item without looking at the
\* coins.
buyOnCredit(w, key) ==
  LET item == SHOP_ITEMS_p1[key]
  IN  IF item.type = "unlock" THEN shake([w EXCEPT !.state.msg = "NOT ENOUGH COINS"], 1, 6)
      ELSE IF item.type = "heal"
      THEN (IF w.player.hp >= w.player.hpMax THEN [w EXCEPT !.state.msg = "HP FULL"]
            ELSE [w EXCEPT !.state.coins = @ - item.cost,
                           !.player.hp = clamp(@ + item.amount, 0, w.player.hpMax),
                           !.state.msg = "HEALED"])
      ELSE [w EXCEPT !.state.coins = @ - item.cost, !.player.hpMax = @ + item.amount,
                     !.player.hp = @ + item.amount, !.state.msg = "MAX HP UP"]

\* buyShopItem(SHOP_ITEMS[key - 1])
buyShopItem_p1(w, key) ==
  LET item == SHOP_ITEMS_p1[key]
  IN  IF w.state.coins < item.cost
      THEN shake([w EXCEPT !.state.msg = "NOT ENOUGH COINS"], 1, 6)
      ELSE IF item.type = "unlock"
      THEN (IF w.WEAPONS[item.weaponId + 1].unlocked
            THEN [w EXCEPT !.state.msg = "ALREADY OWNED"]
            ELSE [w EXCEPT !.WEAPONS[item.weaponId + 1].unlocked = TRUE,
                           !.state.coins = @ - item.cost, !.state.msg = "UNLOCKED"])
      ELSE IF item.type = "heal"
      THEN (IF w.player.hp >= w.player.hpMax THEN [w EXCEPT !.state.msg = "HP FULL"]
            ELSE [w EXCEPT !.state.coins = @ - item.cost,
                           !.player.hp = clamp(@ + item.amount, 0, w.player.hpMax),
                           !.state.msg = "HEALED"])
      ELSE [w EXCEPT !.state.coins = @ - item.cost, !.player.hpMax = @ + item.amount,
                     !.player.hp = @ + item.amount, !.state.msg = "MAX HP UP"]

\* update(dt): ESC at the open shop, the F key, the purchases at the open
\* shop (which end the tick), the door transition (stashRoom, loadRoom), the
\* enemy loop (touch damage, removal of the dead with their coin drop), the
\* pickups and the room clear check.  ev.tried holds the key pressed, for F
\* the place at which it was pressed.
update_p1(w, in, rnd) ==
  LET id == w.state.roomId
      esc(v) == IF in.key = "ESC" /\ v.state.shopOpen THEN [v EXCEPT !.state.shopOpen = FALSE]
                ELSE v
      tryOpenShop(v) ==
        IF in.near # "counter" THEN [v EXCEPT !.state.msg = "STEP UP TO THE COUNTER"]
        ELSE [v EXCEPT !.state.shopOpen = ~@]
      keyF(v) ==
        IF in.key # "F" THEN v
        ELSE IF v.state.map[id].kind = "shop" THEN tryOpenShop(v)
        ELSE IF v.state.map[id].kind = "heal" THEN useFountain_p1(v, in)
        ELSE IF v.state.map[id].kind = "armory" THEN openArmory_p1(v, in, rnd)
        ELSE v
      buy(v) == IF in.key \in {"1", "2", "3", "4"}
                THEN buyShopItem_p1(v, CASE in.key = "1" -> 1 [] in.key = "2" -> 2
                                        [] in.key = "3" -> 3 [] OTHER -> 4)
                ELSE v
      nid == roomKey(id[1] + dxOf(in.go), id[2] + dyOf(in.go))
      RECURSIVE enemies(_, _)
      enemies(v, i) ==
        IF i < 1 THEN v
        ELSE enemies(
               [(IF i = rnd.touch THEN hurtPlayer(v, 1) ELSE v)
                  EXCEPT !.state.enemies = IF i \in rnd.dead THEN splice(@, i) ELSE @,
                         !.state.pickups = IF i \in rnd.dead
                                           THEN Append(@, [t |-> "coin", v |-> 1]) ELSE @],
               i - 1)
      RECURSIVE pickups(_, _)
      pickups(v, i) ==
        IF i < 1 THEN v
        ELSE IF i \notin rnd.reach THEN pickups(v, i - 1)
        ELSE pickups(
               [v EXCEPT !.state.coins = IF v.state.pickups[i].t = "coin"
                                         THEN @ + v.state.pickups[i].v ELSE @,
                         !.player.hp = IF v.state.pickups[i].t = "heart"
                                       THEN clamp(@ + v.state.pickups[i].v, 0, v.player.hpMax)
                                       ELSE @,
                         !.state.msg = IF v.state.pickups[i].t = "coin" THEN "+COIN" ELSE "+HP",
                         !.state.pickups = splice(@, i)], i - 1)
      clear(v) ==
        IF ~v.state.map[id].cleared /\ v.state.map[id].kind = "combat" /\ v.state.enemies = <<>>
        THEN [v EXCEPT !.state.map[id].cleared = TRUE,
                       !.state.rooms[id].doorsOpen = allDoors(TRUE),
                       !.state.msg = "ROOM CLEARED",
                       !.state.pickups = IF rnd.heart THEN Append(@, [t |-> "heart", v |-> 1])
                                         ELSE @]
        ELSE v
      sim(v) == clear(pickups(enemies(v, Len(v.state.enemies)),
                              Len(enemies(v, Len(v.state.enemies)).state.pickups)))
      move(v) ==
        IF in.go = "none" \/ ~v.state.rooms[id].neighbors[in.go] THEN sim(v)
        ELSE IF ~v.state.rooms[id].doorsOpen[in.go]
        THEN sim([v EXCEPT !.state.msg = "DOOR LOCKED"])
        ELSE [loadRoom_p1([stashRoom(ensureRoom(ensureNode_p1(v, nid), nid), id)
                             EXCEPT !.state.roomId = nid], nid, rnd)
                EXCEPT !.state.cam.shake = 0, !.state.cam.shakeT = 0,
                       !.ev.trans = in.go, !.ev.moves = @ + 1]
      shop(v) == IF v.state.map[id].kind = "shop" /\ v.state.shopOpen THEN buy(v)
                 ELSE move(v)
      timers(v) == [v EXCEPT !.player.invT = countdown(@),
                             !.state.cam.shakeT = countdown(@),
                             !.state.cam.shake = IF v.state.cam.shakeT > 0 THEN @ ELSE 0]
      seen(v) == [v EXCEPT !.ev.tried = IF in.key = "none" THEN {}
                                        ELSE IF in.key = "F" THEN {in.near} ELSE {in.key}]
  IN  IF w.state.paused THEN evReset(w, "update")
      ELSE seen(shop(keyF(timers(esc(evReset(w, "update"))))))

\* resetGame(): the start room is loaded.
Init_p1r ==
  LET w == loadRoom_p1(
              [state |-> [roomId |-> <<0, 0>>, map |-> <<>>, rooms |-> <<>>, enemies |-> <<>>,
                          pickups |-> <<>>, decals |-> <<>>, coins |-> 0, msg |-> "",
                          msgT |-> 0, paused |-> FALSE, shopOpen |-> FALSE,
                          cam |-> Declared.state.cam],
               player |-> [hp |-> 6, hpMax |-> 6, invT |-> 0, weapon |-> 0],
               WEAPONS |-> [i \in 1..3 |-> [unlocked |-> i = 1]],
               ev |-> Declared.ev], <<0, 0>>, [n |-> Spawned_p1r])
  IN  /\ state = w.state
      /\ player = w.player
      /\ WEAPONS = w.WEAPONS
      /\ ev = w.ev

\* One frame: the player pushes through a door only while nothing else
\* happens; F is pressed at the fountain, at the chest, at the shop counter
\* or elsewhere; at the open shop a key is pressed in every frame; one
\* enemy dies per tick at most, the first in the list, and one enemy
\* touches the player, who has more than 4 hp; the pickups in reach are all
\* or none of them; a cleared room yields a heart only to a player with 4 hp
\* or less; the player stays within Visited_p1r.
Update_p1r ==
  LET kind == state.map[state.roomId].kind
      walk == {d \in Dirs : /\ ev.moves < MaxMoves_p1r /\ ~state.shopOpen
                            /\ roomKey(state.roomId[1] + dxOf(d),
                                       state.roomId[2] + dyOf(d)) \in Visited_p1r}
      keys(go) == IF go # "none" THEN {"none"}
                  ELSE IF state.shopOpen THEN {"F", "1", "2", "3", "4", "ESC"}
                  ELSE {"none", "F"}
      places(key) == IF key # "F" THEN {"none"}
                     ELSE {"none"} \cup (IF kind = "heal" THEN {"fountain"} ELSE {})
                                   \cup (IF kind = "armory" THEN {"chest"} ELSE {})
                                   \cup (IF kind = "shop" THEN {"counter"} ELSE {})
      first == {1} \cap DOMAIN state.enemies
  IN  /\ ~state.paused
      /\ \E go \in {"none"} \cup walk : \E key \in keys(go) : \E near \in places(key) :
           \E dead \in {{}} \cup (IF go = "none" THEN {{i} : i \in first} ELSE {}) :
             \E touch \in {0} \cup (IF go = "none" /\ dead = {} /\ player.hp > 4
                                    THEN first ELSE {}) :
               \E reach \in {{}} \cup (IF go = "none" /\ ~state.shopOpen
                                       THEN {DOMAIN state.pickups} ELSE {}) :
                 \E heart \in flag(player.hp <= 4 /\ dead # {}) :
                   \E pick \in flag(near = "chest") :
                     \E w \in {update_p1(World, [go |-> go, key |-> key, near |-> near],
                                 [dead |-> dead, touch |-> touch, reach |-> reach,
                                  heart |-> heart, pick |-> IF pick THEN 1 ELSE 0,
                                  n |-> Spawned_p1r])} :
                       Becomes(w)

Next_p1r == Update_p1r

Spec_p1r == Init_p1r /\ [][Next_p1r]_vars

\* C22: a one-shot flag of a room, once set, stays set, also across leaving
\* and re-entering the room; pressing F in a heal room whose fountain is
\* used, or in an armory whose chest is used, leaves hp, coins and the weapon
\* unlock flags unchanged and sets a message; and hp rises by a fountain, or
\* the armory gives a weapon or coins, only in the tick that sets the flag.
C22_OneShotRooms ==
  [][/\ \A id \in DOMAIN state.map :
          id \in DOMAIN state'.map /\ state.map[id].flags \subseteq state'.map[id].flags
     /\ (/\ ev'.tried # {} /\ state.roomId \in DOMAIN state.map
         /\ \/ state.map[state.roomId].kind = "heal"
               /\ "fountainUsed" \in state.map[state.roomId].flags
            \/ state.map[state.roomId].kind = "armory"
               /\ "armoryUsed" \in state.map[state.roomId].flags)
        => /\ player'.hp = player.hp /\ state'.coins = state.coins /\ WEAPONS' = WEAPONS
           /\ state'.msg \in {"FOUNTAIN DRIED", "STAND BY THE FOUNTAIN", "EMPTY", "GET CLOSER"}
     /\ (state.map[state.roomId].kind = "heal" /\ player'.hp > player.hp)
        => /\ "fountainUsed" \notin state.map[state.roomId].flags
           /\ "fountainUsed" \in state'.map[state.roomId].flags
     /\ (state.map[state.roomId].kind = "armory"
         /\ (WEAPONS' # WEAPONS \/ state'.coins # state.coins))
        => /\ "armoryUsed" \notin state.map[state.roomId].flags
           /\ "armoryUsed" \in state'.map[state.roomId].flags]_vars

\* Back in the heal room whose fountain was used on the first visit, a
\* player who has since lost hp presses F at the fountain again.
C22_DriedFountainTried ==
  /\ state.map[state.roomId].kind = "heal" /\ ev.tried = {"fountain"}
  /\ state.msg = "FOUNTAIN DRIED" /\ player.hp < player.hpMax
  /\ state.rooms[state.roomId].cache # <<>>

\* C23: the coin count is never negative; a purchase attempted with fewer
\* coins than the item costs leaves coins, the weapon unlock flags, the
\* current weapon, hp and hpMax as they were and sets the message; and coins
\* go down only by the cost of the item whose key was pressed, which the
\* player could pay.
C23_NoPurchaseOnCredit ==
  /\ [](state.coins >= 0)
  /\ [][LET tried == ev'.tried
            item == SHOP_ITEMS_p1[CHOOSE k \in 1..4 : tried = {<<"1", "2", "3", "4">>[k]}]
            buys == tried # {} /\ tried \subseteq {"1", "2", "3", "4"}
        IN  /\ (buys /\ state.coins < item.cost)
               => /\ state'.coins = state.coins /\ WEAPONS' = WEAPONS
                  /\ player'.weapon = player.weapon
                  /\ player'.hp = player.hp /\ player'.hpMax = player.hpMax
                  /\ state'.msg = "NOT ENOUGH COINS"
            /\ state'.coins < state.coins
               => /\ buys /\ state.coins >= item.cost
                  /\ state'.coins = state.coins - item.cost]_vars

\* At the open shop a player who holds coins, but fewer than the shotgun
\* costs, has pressed its key.
C23_TooFewCoins ==
  /\ state.shopOpen /\ ev.tried = {"1"} /\ state.msg = "NOT ENOUGH COINS"
  /\ state.coins > 0 /\ state.coins < 8 /\ state.map[state.roomId].kind = "shop"
  /\ player.hp = player.hpMax /\ ~WEAPONS[2].unlocked

(***************************************************************************)
(* FREEDOM (the first program of part_001): the combat core of update(),   *)
(* on a combat room of floor 1 that spawnRoomContents has populated.       *)
(* Enemy hp and damage are in 1/10000; positions are not followed: which   *)
(* enemy a bullet meets, which enemies a chain or a blast reaches and      *)
(* whether the first enemy touches the player are outcomes in `rnd`.       *)
(* ev.loot counts, per enemy, the executions of the score-and-drops block. *)
(***************************************************************************)
\* Enemies spawned in the room (the source spawns 5 + 2 * floor).
MaxEnemies_fr == 2

\* makeEnemy(kind, x, y, tier) for the kinds spawned: armor in 1/100.
makeEnemy_fr(kind, tier) ==
  IF kind = "runner"
  THEN [kind |-> kind, hp |-> (26 + tier * 6) * 10000, alive |-> TRUE,
        touch |-> 10 + tier * 2, score |-> 20 + tier * 5, elite |-> FALSE, armor |-> 0]
  ELSE [kind |-> kind, hp |-> (22 + tier * 7) * 10000, alive |-> TRUE,
        touch |-> 0, score |-> 26 + tier * 7, elite |-> FALSE, armor |-> 0]

\* Weapons[id]: dmg, chain, explode.
Weapons_fr ==
  [starter_pistol |-> [dmg |-> 10, chain |-> 0, explode |-> 0],
   tesla          |-> [dmg |-> 11, chain |-> 2, explode |-> 0],
   voidLauncher   |-> [dmg |-> 40, chain |-> 0, explode |-> 32]]

\* damageEnemy(e, dmg, fromBullet) for the enemy at index i; status procs
\* and knockback are not followed.
damageEnemy_fr(w, i, dmg, rnd) ==
  LET e == w.state.enemies[i]
      finalDmg == (dmg * (100 - e.armor)) \div 100
      heal(v) ==
        IF v.player.lifeSteal > 0 /\ finalDmg > 0
        THEN [v EXCEPT !.player.hp =
                IF @ + (finalDmg * v.player.lifeSteal) \div 1000000 > v.player.hpMax
                THEN v.player.hpMax ELSE @ + (finalDmg * v.player.lifeSteal) \div 1000000]
        ELSE v
      die(v) ==
        IF v.state.enemies[i].hp <= 0
        THEN [v EXCEPT !.state.enemies[i].alive = FALSE,
                       !.state.score = @ + e.score,
                       !.state.money = @ + rnd.money + (IF e.elite THEN 10 ELSE 0),
                       !.state.pickups = IF rnd.coin THEN Append(@, "coin") ELSE @,
                       !.ev.loot[i] = @ + 1]
        ELSE v
      defeat(v) ==
        IF v.state.enemies[i].hp <= 0 /\ e.kind = "boss_proxy"
        THEN [v EXCEPT !.state.bossAlive = FALSE,
                       !.state.pickups = @ \o <<"portal", "item", "weapon">>,
                       !.state.msg = "BOSS DEFEATED"]
        ELSE v
  IN  IF ~e.alive THEN w
      ELSE defeat(die(heal([w EXCEPT !.state.enemies[i].hp = @ - finalDmg])))

\* chainShock(originEnemy, dmg, chains): each link goes to a live enemy other
\* than the last one, if rnd.near says one is within 110 px.
chainShock_fr(w, origin, dmg, chains, rnd) ==
  LET RECURSIVE link(_, _, _, _)
      link(v, last, d, k) ==
        LET cand == {j \in 1..Len(v.state.enemies) : v.state.enemies[j].alive /\ j # last}
            best == CHOOSE j \in cand : \A m \in cand : j <= m
        IN  IF k = 0 \/ cand = {} \/ ~rnd.near THEN v
            ELSE link(damageEnemy_fr(v, best, d, rnd), best, (d * 75) \div 100, k - 1)
  IN  link(w, origin, dmg, chains)

\* doExplosion(x, y, radius, dmg): the live enemies in rnd.blast are within
\* the radius, at the falloff rnd.falloff (in 1/100).
doExplosion_fr(w, dmg, rnd) ==
  LET RECURSIVE each(_, _)
      each(v, j) ==
        IF j > Len(v.state.enemies) THEN v
        ELSE IF v.state.enemies[j].alive /\ j \in rnd.blast
        THEN each(damageEnemy_fr(v, j, (dmg * (55 + (45 * rnd.falloff) \div 100)) \div 100, rnd),
                  j + 1)
        ELSE each(v, j + 1)
  IN  each(w, 1)

\* damagePlayer(dmg, srcX, srcY): the shield first, then hp.
damagePlayer_fr(w, dmg) ==
  LET take == IF w.player.shield < dmg THEN w.player.shield ELSE dmg
      remaining == dmg - take
      over(v) == IF v.player.hp <= 0
                 THEN [v EXCEPT !.player.hp = 0, !.state.mode = "gameover"] ELSE v
  IN  IF w.player.invT > 0 THEN w
      ELSE IF remaining > 0
      THEN over([w EXCEPT !.player.shield = @ - take, !.player.hp = @ - remaining,
                          !.player.invT = ticks(12)])
      ELSE [w EXCEPT !.player.shield = @ - take]

\* update(dt): the player's timers, the hit test of a player bullet
\* (rnd.hit is the enemy it meets, 0 for none) and the enemy loop with its
\* touch damage and thorns.
update_fr(w, rnd) ==
  LET b == Weapons_fr[w.player.weapon]
      timers(v) == [v EXCEPT !.player.invT = countdown(@)]
      explode(v) == IF b.explode > 0 THEN doExplosion_fr(v, b.dmg * 7000, rnd) ELSE v
      chain(v) == IF b.chain > 0 THEN chainShock_fr(v, rnd.hit, b.dmg * 5500, b.chain, rnd) ELSE v
      bullets(v) ==
        IF rnd.hit # 0 /\ v.state.enemies[rnd.hit].alive
        THEN explode(chain(damageEnemy_fr(v, rnd.hit, b.dmg * 10000, rnd)))
        ELSE v
      thorns(v, j) ==
        IF v.player.thorns > 0
        THEN [v EXCEPT !.state.enemies[j].hp = @ - v.state.enemies[j].touch * v.player.thorns * 100,
                       !.state.enemies[j].alive =
                         IF v.state.enemies[j].hp - v.state.enemies[j].touch * v.player.thorns * 100 <= 0
                         THEN FALSE ELSE @]
        ELSE v
      RECURSIVE enemies(_, _)
      enemies(v, j) ==
        IF j > Len(v.state.enemies) THEN v
        ELSE IF v.state.enemies[j].alive /\ v.state.enemies[j].touch > 0 /\ j \in rnd.touch
        THEN enemies(thorns(damagePlayer_fr(v, v.state.enemies[j].touch), j), j + 1)
        ELSE enemies(v, j + 1)
  IN  IF w.state.mode # "play" THEN evReset(w, "update")
      ELSE enemies(bullets(timers(evReset(w, "update"))), 1)

\* The draws of one update: one enemy is close enough to touch the player.
Rnds_fr(w) ==
  LET live == {j \in 1..Len(w.state.enemies) : w.state.enemies[j].alive}
  IN  {r \in [hit : {0} \cup live, near : BOOLEAN, blast : SUBSET live, falloff : {0, 100},
              touch : SUBSET (live \cap {1}), money : {2}, coin : BOOLEAN] :
         /\ r.hit = 0 => ~r.near /\ r.blast = {} /\ ~r.coin /\ r.falloff = 100
         /\ r.hit # 0 => r.hit \in r.blast /\ r.touch = {}
         /\ Weapons_fr[w.player.weapon].chain = 0 => ~r.near
         /\ Weapons_fr[w.player.weapon].explode = 0 => r.blast \subseteq {r.hit} /\ r.falloff = 100}

\* The room after spawnRoomContents: runners and shooters of tier 1; the
\* player carries one of three weapons and may have been given the Spike
\* Jacket (thorns 0.12, here in 1/100).
Init_fr ==
  \E kinds \in [1..MaxEnemies_fr -> {"runner", "shooter"}] :
    \E weapon \in DOMAIN Weapons_fr : \E jacket \in BOOLEAN :
      /\ state = [mode |-> "play", score |-> 0, money |-> 0, pickups |-> <<>>,
                  enemies |-> [j \in 1..MaxEnemies_fr |-> makeEnemy_fr(kinds[j], 1)]]
      /\ player = [hp |-> 100, hpMax |-> 100, shield |-> 35, invT |-> 0,
                   thorns |-> IF jacket THEN 12 ELSE 0, lifeSteal |-> 0, weapon |-> weapon]
      /\ WEAPONS = <<>>
      /\ ev = [Declared.ev EXCEPT !.loot = [j \in 1..MaxEnemies_fr |-> 0]]

Update_fr ==
  /\ state.mode = "play"
  /\ \E rnd \in Rnds_fr(World) : Becomes(update_fr(World, rnd))

Next_fr == Update_fr

Spec_fr == Init_fr /\ [][Next_fr]_vars

\* C8: every enemy whose hp is 0 or below is out of the simulation and has
\* had its loot roll (score, money, drops) executed exactly once; no enemy's
\* loot roll is executed twice.
C8_DeadEnemyLootedOnce ==
  \A j \in 1..Len(state.enemies) :
    /\ ev.loot[j] <= 1
    /\ state.enemies[j].hp <= 0 => ~state.enemies[j].alive /\ ev.loot[j] = 1

(***************************************************************************)
(* FREEDOM: the flight of the player's bullets.  The room holds two        *)
(* enemies out of touch range; what a bullet meets in a tick (nothing, a   *)
(* solid tile, the enemy rnd.at) is an outcome in `rnd`.  A bullet's life  *)
(* is Life_fr ticks; clip and reload are not followed.  A bullet carries   *)
(* two observations, `made` (its pierce when created) and `hits` (its      *)
(* enemy hits so far); ev.gone lists the bullets the tick removed.         *)
(***************************************************************************)
MaxPierce_fr == 2
Life_fr == 4

\* fireWeapon(room) with the starter pistol, the Rail Coil or the Void
\* Launcher (one bullet, one more with the Split Core); dmgMul in 1/100.
fireWeapon_fr(w, rnd) ==
  LET wp == CASE w.player.weapon = "rail" -> [dmg |-> 32, pierce |-> 2, explode |-> 0]
              [] w.player.weapon = "voidLauncher" -> [dmg |-> 40, pierce |-> 0, explode |-> 32]
              [] OTHER -> [dmg |-> 10, pierce |-> 0, explode |-> 0]
      baseDmg == wp.dmg * 100 * w.player.dmgMul
      RECURSIVE spawnOne(_, _)
      spawnOne(v, k) ==
        IF k > 1 + w.player.bulletsPerShotAdd THEN v
        ELSE spawnOne([v EXCEPT !.state.bullets = Append(@,
               [owner |-> "p", dmg |-> IF rnd.crit[k] THEN (baseDmg * 185) \div 100 ELSE baseDmg,
                life |-> Life_fr, pierce |-> wp.pierce + w.player.pierce,
                bounce |-> w.player.bounce, explode |-> wp.explode,
                made |-> wp.pierce + w.player.pierce, hits |-> 0])], k + 1)
  IN  IF w.player.fireCD > 0 THEN w
      ELSE [spawnOne(w, 1) EXCEPT !.player.fireCD = TimerTicks]

\* The pierce step with the test b.pierce > 1.
pierceOneShort(w, i) ==
  IF w.state.bullets[i].pierce > 1
  THEN [w EXCEPT !.state.bullets[i].pierce = @ - 1,
                 !.state.bullets[i].dmg = (@ * 78) \div 100]
  ELSE [w EXCEPT !.state.bullets = splice(@, i),
                 !.ev.gone = Append(@, [made |-> w.state.bullets[i].made,
                                    hits |-> w.state.bullets[i].hits, why |-> "hit"])]

\* The pierce step of a player bullet that has hit an enemy:
\* if (b.pierce > 0) { b.pierce -= 1; b.dmg *= 0.78 } else splice(i, 1).
pierceOrSplice_fr(w, i) ==
  IF w.state.bullets[i].pierce > 0
  THEN [w EXCEPT !.state.bullets[i].pierce = @ - 1,
                 !.state.bullets[i].dmg = (@ * 78) \div 100]
  ELSE [w EXCEPT !.state.bullets = splice(@, i),
                 !.ev.gone = Append(@, [made |-> w.state.bullets[i].made,
                                    hits |-> w.state.bullets[i].hits, why |-> "hit"])]

\* update(dt): timers, firing and the bullet loop, last bullet first.
update_frb(w, in, rnd) ==
  LET timers(v) == [v EXCEPT !.player.fireCD = countdown(@)]
      fire(v) == IF in.fire THEN fireWeapon_fr(v, rnd) ELSE v
      explode(v, b) ==
        IF b.explode > 0 THEN doExplosion_fr(v, (b.dmg * 70) \div 100, rnd) ELSE v
      gone(v, i, why) ==
        [v EXCEPT !.state.bullets = splice(@, i),
                  !.ev.gone = Append(@, [made |-> v.state.bullets[i].made,
                                     hits |-> v.state.bullets[i].hits, why |-> why])]
      meet(v, i) ==
        IF v.state.bullets[i].life <= 0 THEN gone(v, i, "life")
        ELSE IF rnd.bo[i] = "wall"
        THEN (IF v.state.bullets[i].bounce > 0
              THEN [v EXCEPT !.state.bullets[i].bounce = @ - 1,
                             !.state.bullets[i].life = (@ * 85) \div 100]
              ELSE gone(v, i, "wall"))
        ELSE IF rnd.bo[i] = "hit" /\ v.state.enemies[rnd.at].alive
        THEN pierceOrSplice_fr(
               [explode(damageEnemy_fr(v, rnd.at, v.state.bullets[i].dmg, rnd),
                        v.state.bullets[i])
                  EXCEPT !.state.bullets[i].hits = @ + 1], i)
        ELSE v
      RECURSIVE loop(_, _)
      loop(v, i) ==
        IF i < 1 THEN v
        ELSE loop(meet([v EXCEPT !.state.bullets[i].life = @ - 1], i), i - 1)
  IN  IF w.state.mode # "play" THEN evReset(w, "update")
      ELSE loop(fire(timers([evReset(w, "update") EXCEPT !.ev.gone = <<>>])),
                Len(fire(timers(w)).state.bullets))

\* The room after spawnRoomContents, the player holding the starter pistol
\* or the Rail Coil and up to MaxPierce_fr Pierce Pins and one bounce.
Init_frb ==
  \E kinds \in [1..MaxEnemies_fr -> {"runner", "shooter"}] :
    \E weapon \in {"starter_pistol", "rail"} :
      \E pierce \in 0..MaxPierce_fr : \E bounce \in {0, 1} :
        /\ state = [mode |-> "play", score |-> 0, money |-> 0, pickups |-> <<>>,
                    enemies |-> [j \in 1..MaxEnemies_fr |-> makeEnemy_fr(kinds[j], 1)],
                    bullets |-> <<>>]
        /\ player = [hp |-> 100, hpMax |-> 100, lifeSteal |-> 0, weapon |-> weapon,
                     pierce |-> pierce, bounce |-> bounce, fireCD |-> 0,
                     dmgMul |-> 100, bulletsPerShotAdd |-> 0]
        /\ WEAPONS = <<>>
        /\ ev = ("gone" :> <<>>) @@
                [Declared.ev EXCEPT !.loot = [j \in 1..MaxEnemies_fr |-> 0]]

\* One frame: the mouse button is held only while no bullet is in flight,
\* and no shot of this room is a critical one.
Update_frb ==
  \E in \in [fire : BOOLEAN] :
    \E rnd \in [bo : [1..MaxBullets -> {"fly", "wall", "hit"}], at : 1..MaxEnemies_fr,
                crit : [1..MaxBullets -> {FALSE}], money : {2}, coin : BOOLEAN] :
      /\ in.fire => state.bullets = <<>>
      /\ rnd.coin \/ rnd.at # 1 => \E i \in 1..MaxBullets : rnd.bo[i] = "hit"
      /\ \E w \in {update_frb(World, in, rnd)} : Becomes(w)

Next_frb == Update_frb

Spec_frb == Init_frb /\ [][Next_frb]_vars

\* C18: a player bullet created with pierce n stays in the bullet list through
\* its first n enemy hits, each of which lowers its pierce by one, and an
\* enemy hit removes it exactly when it is the (n+1)-th; a bullet removed
\* sooner was removed by the end of its life or by a solid tile.
C18_PierceCountsHits ==
  /\ \A i \in 1..Len(state.bullets) :
       /\ state.bullets[i].hits <= state.bullets[i].made
       /\ state.bullets[i].pierce = state.bullets[i].made - state.bullets[i].hits
  /\ \A k \in 1..Len(ev.gone) :
       IF ev.gone[k].why = "hit" THEN ev.gone[k].hits = ev.gone[k].made + 1
       ELSE ev.gone[k].why \in {"life", "wall"} /\ ev.gone[k].hits <= ev.gone[k].made

\* A pistol bullet made with pierce 2 has just been removed by its third
\* enemy hit.
C18_ThirdHitRemoves ==
  \E k \in 1..Len(ev.gone) :
    ev.gone[k].why = "hit" /\ ev.gone[k].made = 2 /\ ev.gone[k].hits = 3

(***************************************************************************)
(* FREEDOM: the floor graph.  genFloorGraph() with the length of the main  *)
(* path, the number of branches and their length bounded; rnd holds the    *)
(* outcomes of Math.random.  A graph is its nodes in insertion order       *)
(* (order), the node records (nodes) and the adjacency sets as a set of    *)
(* ordered pairs (edges): edges.get(ka).has(kb) is <<ka, kb>> \in edges.   *)
(* Rooms are walked through with their doors open; the entities of the     *)
(* rooms are not followed.                                                 *)
(***************************************************************************)
\* The main path has at most this many steps (6 + 2 * floor in the source).
MainLen_fr == 3

\* At most this many branches (4 + floor in the source) ...
Branches_fr == 1

\* ... of 2 up to this many steps each (4 or 5 in the source).
BranchLen_fr == 2

\* The order of dirs before it is shuffled: [1,0], [-1,0], [0,1], [0,-1].
dirs_fr == <<"E", "W", "S", "N">>

\* addEdge(a, b) that records the edge at a only.
addEdgeOneWay(g, ka, kb) == [g EXCEPT !.edges = @ \cup {<<ka, kb>>}]

addNode_fr(g, k) ==
  IF k \in DOMAIN g.nodes THEN g
  ELSE [g EXCEPT !.order = Append(@, k),
                 !.nodes = @ @@ (k :> [kind |-> "normal", cleared |-> FALSE, seen |-> FALSE,
                                       locked |-> FALSE])]

addEdge_fr(g, ka, kb) == [g EXCEPT !.edges = @ \cup {<<ka, kb>>, <<kb, ka>>}]

\* genFloorGraph() on floor `floor`.  rnd.walk and rnd.branch give, for each
\* step, the direction that the shuffle has put first (the others follow in
\* the order of dirs_fr, cyclically); rnd.base, rnd.blen and rnd.pick are
\* the outcomes of randi.
genFloorGraph_fr(floor, rnd) ==
  LET radius == LET r == 2 + (floor - 1) \div 2 IN IF r < 2 THEN 2 ELSE IF r > 4 THEN 4 ELSE r
      least(a, b) == IF a < b THEN a ELSE b
      mainLen == least(6 + floor * 2, MainLen_fr)
      branches == least(4 + floor, Branches_fr)
      at(first, j) ==
        LET i0 == CHOOSE i \in 1..4 : dirs_fr[i] = first IN dirs_fr[1 + ((i0 - 1 + j) % 4)]
      inside(c, d) == abs(c[1] + dxOf(d)) <= radius /\ abs(c[2] + dyOf(d)) <= radius
      \* the first direction of the shuffled order that stays within radius
      chosen(c, first) ==
        LET ok == {j \in 0..3 : inside(c, at(first, j))}
        IN  IF ok = {} THEN "none" ELSE at(first, CHOOSE j \in ok : \A k \in ok : j <= k)
      RECURSIVE path(_, _, _, _, _)
      path(g, c, firsts, i, n) ==
        IF i > n THEN g
        ELSE LET d == chosen(c, firsts[i])
             IN  IF d = "none" THEN g
                 ELSE LET k == roomKey(c[1] + dxOf(d), c[2] + dyOf(d))
                      IN  path(addEdge_fr(addNode_fr(g, k), c, k), k, firsts, i + 1, n)
      start == [order |-> <<roomKey(0, 0)>>,
                nodes |-> (roomKey(0, 0) :> [kind |-> "start", cleared |-> FALSE,
                                             seen |-> FALSE, locked |-> FALSE]),
                edges |-> {}]
      \* "Add branches": `all` is the list of nodes of the main path
      RECURSIVE branch(_, _, _)
      branch(g, all, b) ==
        IF b > branches THEN g
        ELSE branch(path(g, all[1 + (rnd.base % Len(all))], rnd.branch, 1,
                         least(rnd.blen, BranchLen_fr)), all, b + 1)
      grow(main) == branch(main, main.order, 1)
      dMan(k) == abs(k[1]) + abs(k[2])
      \* the first node in insertion order that is farthest from the start
      RECURSIVE farthest(_, _, _, _)
      farthest(g, i, boss, best) ==
        IF i > Len(g.order) THEN boss
        ELSE IF g.nodes[g.order[i]].kind # "start" /\ dMan(g.order[i]) > best
        THEN farthest(g, i + 1, g.order[i], dMan(g.order[i]))
        ELSE farthest(g, i + 1, boss, best)
      pick(cands) == cands[1 + (rnd.pick % Len(cands))]
      kind(g, cands, k, locked) ==
        IF cands = <<>> THEN g
        ELSE [g EXCEPT !.nodes[pick(cands)].kind = k, !.nodes[pick(cands)].locked = locked]
      normal(g, k) == g.nodes[k].kind = "normal"
      far(g) == SelectSeq(g.order, LAMBDA k : normal(g, k) /\ dMan(k) >= 2)
      nearBoss(g, boss) ==
        SelectSeq(g.order,
                  LAMBDA k : normal(g, k)
                             /\ (k[1] - boss[1]) * (k[1] - boss[1])
                                + (k[2] - boss[2]) * (k[2] - boss[2]) <= 5)
      shop(g) == kind(g, far(g), "shop", FALSE)
      treasure(g, boss) == kind(g, nearBoss(g, boss), "treasure", TRUE)
      key(g) == kind(g, far(g), "key", FALSE)
      elite(g) == kind(g, far(g), "elite", FALSE)
      special(g, boss) ==
        elite(key(treasure(shop([g EXCEPT !.nodes[boss].kind = "boss"]), boss)))
      designate(g) == special(g, farthest(g, 1, g.order[1], -1))
  IN  designate(grow(path(start, roomKey(0, 0), rnd.walk, 1, mainLen)))

\* getNeighbors(roomId) in the graph g.
getNeighbors_fr(g, roomId) ==
  IF roomId \notin DOMAIN g.nodes THEN allDoors(FALSE)
  ELSE [d \in Dirs |-> <<roomId, roomKey(roomId[1] + dxOf(d), roomId[2] + dyOf(d))>> \in g.edges]

\* tryDoorTransition(room) with the player in the doorway `dir` of a room
\* whose doors are open: go(dx, dy, dirFrom).
go_fr(w, dir) ==
  LET nid == roomKey(w.state.roomId[1] + dxOf(dir), w.state.roomId[2] + dyOf(dir))
      nextNode == w.state.map.nodes[nid]
      enter(v) == [v EXCEPT !.state.roomId = nid, !.state.map.nodes[nid].seen = TRUE,
                            !.ev.trans = dir]
  IN  IF ~getNeighbors_fr(w.state.map, w.state.roomId)[dir] THEN w
      ELSE IF nid \notin DOMAIN w.state.map.nodes THEN w
      ELSE IF nextNode.kind = "treasure" /\ nextNode.locked /\ ~nextNode.cleared
      THEN (IF w.state.keys <= 0 THEN [w EXCEPT !.state.msg = "TREASURE LOCKED"]
            ELSE enter([w EXCEPT !.state.keys = @ - 1, !.state.map.nodes[nid].locked = FALSE,
                                 !.state.msg = "LOCK UNSEALED"]))
      ELSE enter(w)

\* One outcome of Math.random for each call of genFloorGraph.
Random_frg ==
  [walk : [1..MainLen_fr -> Dirs], branch : [1..BranchLen_fr -> Dirs],
   base : 0..MainLen_fr, blen : 2..BranchLen_fr, pick : 0..1]

\* buildFloor() on floor 1: the graph, with the player in its start room.
Init_frg ==
  \E rnd \in Random_frg :
    /\ state = [mode |-> "play", floor |-> 1, keys |-> 0, msg |-> "FLOOR", roomId |-> roomKey(0, 0),
                map |-> [genFloorGraph_fr(1, rnd) EXCEPT !.nodes[roomKey(0, 0)].seen = TRUE]]
    /\ player = <<>>
    /\ WEAPONS = <<>>
    /\ ev = Declared.ev

\* The player walks into one of the four doorways.
Move_frg ==
  \E dir \in Dirs :
    \E w \in {go_fr(evReset(World, "update"), dir)} : Becomes(w)

Next_frg == Move_frg

Spec_frg == Init_frg /\ [][Next_frg]_vars

\* The nodes that a chain of edges between cardinally adjacent nodes joins
\* to the start node.
Joined_frg ==
  LET adjacent(a, b) == abs(a[1] - b[1]) + abs(a[2] - b[2]) = 1
      RECURSIVE grow(_)
      grow(S) ==
        LET T == S \cup {b \in DOMAIN state.map.nodes :
                           \E a \in S : <<a, b>> \in state.map.edges /\ adjacent(a, b)}
        IN  IF T = S THEN S ELSE grow(T)
  IN  grow({roomKey(0, 0)})

\* C25: every node of the floor graph is joined to the start node by a chain
\* of edges between cardinally adjacent nodes, every edge joins two nodes of
\* the graph, and each edge is a neighbour flag (getNeighbors) of both rooms
\* it joins.
C25_FloorNavigable ==
  /\ Joined_frg = DOMAIN state.map.nodes
  /\ \A e \in state.map.edges :
       /\ e[1] \in DOMAIN state.map.nodes /\ e[2] \in DOMAIN state.map.nodes
       /\ \E d \in Dirs :
            /\ e[2] = roomKey(e[1][1] + dxOf(d), e[1][2] + dyOf(d))
            /\ getNeighbors_fr(state.map, e[1])[d]
            /\ getNeighbors_fr(state.map, e[2])[opposite(d)]

\* The player has walked from the start room into the boss room of a floor
\* that has a shop and a branch off the main path.
C25_WalkedToTheBoss ==
  /\ state.map.nodes[state.roomId].kind = "boss"
  /\ ev.trans # "none"
  /\ \E k \in DOMAIN state.map.nodes : state.map.nodes[k].kind = "shop"
  /\ Len(state.map.order) >= 5

(***************************************************************************)
(* FREEDOM: the weapon in hand.  The player holds the Rail Coil in a room  *)
(* in which a Void Launcher lies as a weapon pickup (a chest or a boss     *)
(* left it); aiming, bullets and enemies are not followed, ev.phase holds  *)
(* "fire" if fireWeapon spawned bullets in the tick, and rnd.reach is the  *)
(* set of pickups within the pickup radius.                                *)
(***************************************************************************)
\* A reload (1.1 s to 2.0 s in the source) lasts at most this many ticks.
ReloadTicks_frw == 3

\* equipWeapon(id): clip and reload (in ticks) of the weapons held here.
equipWeapon_fr(w, id) ==
  LET wp == [rail |-> [clip |-> 4, tier |-> 3], voidLauncher |-> [clip |-> 3, tier |-> 4],
             starter_pistol |-> [clip |-> 10, tier |-> 1]][id]
  IN  [w EXCEPT !.player.weapon = id, !.player.clipMax = wp.clip, !.player.clip = wp.clip,
                !.player.reloadT = 0, !.player.fireCD = 0,
                !.player.ammo = IF id = "starter_pistol" THEN 999
                                ELSE IF wp.tier <= 2 THEN 120
                                ELSE IF wp.tier = 3 THEN 80 ELSE 45]

\* update(dt): the player's timers with the end of a reload, fireWeapon,
\* reloadWeapon and pickupCollect.
update_frw(w, in, rnd) ==
  LET long(cs) == IF (cs + 1) \div 2 > ReloadTicks_frw THEN ReloadTicks_frw ELSE (cs + 1) \div 2
      reload == [rail |-> long(175), voidLauncher |-> long(200),
                 starter_pistol |-> long(110)][w.player.weapon]
      rate == [rail |-> ticks(95), voidLauncher |-> ticks(105),
               starter_pistol |-> ticks(25)][w.player.weapon]
      min(a, b) == IF a < b THEN a ELSE b
      finish(v) ==
        IF v.player.ammo = 999 THEN [v EXCEPT !.player.clip = v.player.clipMax]
        ELSE [v EXCEPT !.player.ammo = @ - min(v.player.clipMax - v.player.clip, v.player.ammo),
                       !.player.clip = @ + min(v.player.clipMax - v.player.clip, v.player.ammo)]
      timers(v) ==
        IF v.player.reloadT > 0
        THEN (IF v.player.reloadT - 1 <= 0
              THEN finish([v EXCEPT !.player.fireCD = countdown(@), !.player.reloadT = 0])
              ELSE [v EXCEPT !.player.fireCD = countdown(@), !.player.reloadT = @ - 1])
        ELSE [v EXCEPT !.player.fireCD = countdown(@)]
      fireWeapon(v) ==
        IF ~in.fire \/ v.player.reloadT > 0 \/ v.player.fireCD > 0 THEN v
        ELSE IF v.player.clip <= 0 THEN [v EXCEPT !.player.reloadT = reload]
        ELSE phase([v EXCEPT !.player.fireCD = rate, !.player.clip = @ - 1], "fire")
      reloadWeapon(v) ==
        IF ~in.R \/ v.player.reloadT > 0 \/ v.player.clip >= v.player.clipMax THEN v
        ELSE [v EXCEPT !.player.reloadT = reload]
      collect(v, p) ==
        IF p.type = "weapon" THEN [equipWeapon_fr(v, p.weapon) EXCEPT !.state.score = @ + 45]
        ELSE IF p.type = "ammo"
        THEN [v EXCEPT !.player.ammo = IF @ < 999 THEN @ + p.amt * 2 ELSE @,
                       !.state.score = @ + 6]
        ELSE v
      RECURSIVE pickupCollect(_, _)
      pickupCollect(v, i) ==
        IF i < 1 THEN v
        ELSE IF i \in rnd.reach
        THEN pickupCollect([collect(v, v.state.pickups[i]) EXCEPT !.state.pickups = splice(@, i)],
                           i - 1)
        ELSE pickupCollect(v, i - 1)
  IN  IF w.state.mode # "play" THEN evReset(w, "update")
      ELSE pickupCollect(reloadWeapon(fireWeapon(timers(evReset(w, "update")))),
                         Len(w.state.pickups))

\* The player has picked up the Rail Coil; a Void Launcher and an ammo
\* pickup lie in the room.
Init_frw ==
  LET w == equipWeapon_fr(
             [state |-> [mode |-> "play", score |-> 0,
                         pickups |-> <<[type |-> "weapon", weapon |-> "voidLauncher", amt |-> 1],
                                       [type |-> "ammo", weapon |-> "", amt |-> 22]>>],
              player |-> [weapon |-> "starter_pistol", clip |-> 10, clipMax |-> 10,
                          ammo |-> 999, reloadT |-> 0, fireCD |-> 0],
              WEAPONS |-> <<>>, ev |-> Declared.ev], "rail")
  IN  /\ state = w.state
      /\ player = w.player
      /\ WEAPONS = w.WEAPONS
      /\ ev = w.ev

\* One frame: the mouse button and the R key are down or up, and the player
\* is within reach of one pickup or of none.
Update_frw ==
  \E fire \in BOOLEAN : \E R \in BOOLEAN :
    \E reach \in {{}} \cup {{i} : i \in DOMAIN state.pickups} :
      /\ state.mode = "play"
      /\ \E w \in {update_frw(World, [fire |-> fire, R |-> R], [reach |-> reach])} :
           Becomes(w)

Next_frw == Update_frw

Spec_frw == Init_frw /\ [][Next_frw]_vars

\* C24: while a reload runs (reloadT > 0) each tick takes reloadT down by
\* one tick, the clip stays as it is until reloadT has reached zero, and no
\* bullet is fired in a tick that ends with reloadT positive.
C24_ReloadRunsToItsEnd ==
  [][player.reloadT > 0 /\ state.mode = "play" /\ ev'.op = "update"
     => /\ player'.reloadT = player.reloadT - 1
        /\ player'.reloadT > 0 => player'.clip = player.clip /\ ev'.phase = <<>>]_vars

(***************************************************************************)
(* FREEDOM: the boss room.  The boss of tier 1 stands in reach of the      *)
(* player's Void Launcher; the bullets the boss fires are not followed,    *)
(* ev.phase lists the patterns it fired in the tick.                       *)
(***************************************************************************)
MaxBullets_fr == 2

\* makeEnemy("boss_proxy", x, y, tier)
makeBoss_fr(tier) ==
  [kind |-> "boss_proxy", hp |-> (520 + tier * 140) * 10000,
   hpMax |-> (520 + tier * 140) * 10000, alive |-> TRUE, touch |-> 0, score |-> 500,
   elite |-> FALSE, armor |-> 0, phase |-> 1, fireCD |-> ticks(80)]

\* The boss branch of the enemy loop of update(dt) for the enemy at index j.
bossStep_fr(w, j, rnd) ==
  LET phase2(v) == IF v.state.enemies[j].hp * 100 < 66 * v.state.enemies[j].hpMax
                      /\ v.state.enemies[j].phase = 1
                   THEN [v EXCEPT !.state.enemies[j].phase = 2, !.state.msg = "BOSS PHASE 2"]
                   ELSE v
      phase3(v) == IF v.state.enemies[j].hp * 100 < 33 * v.state.enemies[j].hpMax
                      /\ v.state.enemies[j].phase = 2
                   THEN [v EXCEPT !.state.enemies[j].phase = 3, !.state.msg = "BOSS PHASE 3"]
                   ELSE v
      minion(v) == IF rnd.minion
                   THEN [v EXCEPT !.state.enemies = Append(@, makeEnemy_fr("runner", 1)),
                                  !.ev.loot = Append(@, 0)]
                   ELSE v
      shoot(v) ==
        IF v.state.enemies[j].fireCD > 0 THEN v
        ELSE IF v.state.enemies[j].phase = 1
        THEN phase([v EXCEPT !.state.enemies[j].fireCD = ticks(75)], "radial 10")
        ELSE IF v.state.enemies[j].phase = 2
        THEN phase([v EXCEPT !.state.enemies[j].fireCD = ticks(68)], "aimed triple")
        ELSE minion(phase([v EXCEPT !.state.enemies[j].fireCD = ticks(58)], "spiral"))
  IN  shoot([phase3(phase2(w)) EXCEPT !.state.enemies[j].fireCD = @ - 1])

\* buildRoom(node, neighbors): the door flags of a room when it is built.
buildRoom_fr(node, neighbors) ==
  LET combat == node.kind \in {"normal", "elite", "boss"}
  IN  [kind |-> node.kind, cleared |-> node.cleared, neighbors |-> neighbors,
       doorsOpen |-> IF ~combat \/ node.cleared THEN neighbors ELSE allDoors(FALSE),
       doorsLocked |-> IF node.kind = "boss" /\ ~node.cleared THEN neighbors
                       ELSE allDoors(FALSE)]

\* A clear check that counts the living enemies other than the boss only.
clearCheckSkipsBoss(w, aliveCount) ==
  LET id == w.state.roomId
      others == Cardinality({j \in 1..Len(w.state.enemies) :
                   w.state.enemies[j].alive /\ w.state.enemies[j].kind # "boss_proxy"})
  IN  IF ~w.state.map[id].cleared /\ w.state.map[id].kind \in {"normal", "elite", "boss"}
         /\ others = 0
      THEN [w EXCEPT !.state.map[id].cleared = TRUE, !.state.room.cleared = TRUE,
                     !.state.room.doorsOpen = w.state.room.neighbors,
                     !.state.msg = "ROOM CLEARED"]
      ELSE w

\* "room cleared -> open doors" of update(dt); aliveCount is the count the
\* enemy loop has made.
clearCheck_fr(w, aliveCount) ==
  LET id == w.state.roomId
  IN  IF ~w.state.map[id].cleared /\ w.state.map[id].kind \in {"normal", "elite", "boss"}
         /\ aliveCount = 0 /\ (~w.state.bossAlive \/ w.state.map[id].kind # "boss")
      THEN [w EXCEPT !.state.map[id].cleared = TRUE, !.state.room.cleared = TRUE,
                     !.state.room.doorsOpen = w.state.room.neighbors,
                     !.state.pickups = IF w.state.map[id].kind = "elite"
                                       THEN Append(@, "item") ELSE @,
                     !.state.msg = IF w.state.map[id].kind = "elite"
                                   THEN "ELITE CLEARED" ELSE "ROOM CLEARED"]
      ELSE w

\* tryDoorTransition(room); `near` is the doorway region the player's
\* position is in, the position itself is not followed.  The room entered
\* has been visited, so that its spawnRoomContents does nothing.
tryDoorTransition_fr(w, near) ==
  LET id  == w.state.roomId
      nid == roomKey(id[1] + dxOf(near), id[2] + dyOf(near))
      enter(v) == [v EXCEPT !.state.roomId = nid, !.state.map[nid].seen = TRUE,
                            !.state.bullets = <<>>,
                            !.state.room = buildRoom_fr(v.state.map[nid],
                                             [d \in Dirs |-> d = opposite(near)]),
                            !.ev.trans = near]
  IN  IF near = "none" \/ ~(w.state.room.neighbors[near] /\ w.state.room.doorsOpen[near])
      THEN w
      ELSE IF nid \notin DOMAIN w.state.map THEN w
      ELSE IF /\ w.state.map[nid].kind = "treasure" /\ w.state.map[nid].locked
              /\ ~w.state.map[nid].cleared
      THEN (IF w.state.keys <= 0 THEN [w EXCEPT !.state.msg = "TREASURE LOCKED"]
            ELSE enter([w EXCEPT !.state.keys = @ - 1, !.state.map[nid].locked = FALSE,
                                 !.state.msg = "LOCK UNSEALED"]))
      ELSE enter(w)

\* buildFloor(): the graph `floorMap` that genFloorGraph() returned becomes
\* the map, the room table and the entity lists are emptied and the player
\* is placed in the start room (x, y in 1/10 px); state.room is the room
\* that getRoom(state.roomId) builds in the next update.
buildFloor_fr(w, floorMap) ==
  [w EXCEPT !.state.map = [floorMap EXCEPT ![<<0, 0>>].seen = TRUE],
            !.state.roomId = <<0, 0>>,
            !.state.enemies = <<>>, !.state.bullets = <<>>, !.state.pickups = <<>>,
            !.state.bossAlive = FALSE,
            !.state.room = buildRoom_fr(floorMap[<<0, 0>>],
                                        [d \in Dirs |-> roomKey(dxOf(d), dyOf(d)) \in DOMAIN floorMap]),
            !.player.x = (204 * 10) \div 2, !.player.y = (156 * 65) \div 10,
            !.state.msg = "FLOOR",
            !.ev.loot = <<>>]

\* A tryInteract whose portal builds the next floor without counting it.
tryInteractKeepsFloor(w, in, rnd) ==
  LET best == {i \in 1..Len(w.state.pickups) : w.state.pickups[i] = "portal"}
  IN  IF best = {} \/ in.near # "portal" THEN w
      ELSE buildFloor_fr(w, rnd.floorMap)

\* tryInteract(room) where the only interactable pickups are portals:
\* in.near = "portal" says that the player is within 18 px of the closest.
tryInteract_fr(w, in, rnd) ==
  LET best == {i \in 1..Len(w.state.pickups) : w.state.pickups[i] = "portal"}
      more(a, b, cap) == IF a + b > cap THEN cap ELSE a + b
      floor == w.state.floor + 1
  IN  IF best = {} \/ in.near # "portal" THEN w
      ELSE [buildFloor_fr([w EXCEPT !.state.floor = floor,
                                    !.state.score = @ + 250 + floor * 50,
                                    !.state.money = @ + 30 + floor * 6], rnd.floorMap)
              EXCEPT !.player.hp = more(@, 25, w.player.hpMax),
                     !.player.shield = more(@, 15, w.player.shieldMax)]

\* update(dt) of the boss room: the timers, the E key, the bullet loop, the
\* enemy loop (touch damage with thorns, then the boss), the clear check with
\* the count of the enemies that were alive when the loop came to them, and
\* the door transition.  The E key is pressed with the mouse button up, so
\* that fireWeapon, which the source calls first, does nothing before it;
\* ev.tried holds the place at which the E key was pressed.
update_frboss(w, in, rnd) ==
  LET timers(v) == [v EXCEPT !.player.invT = countdown(@)]
      thorns(v, j) ==
        IF v.player.thorns > 0
        THEN [v EXCEPT !.state.enemies[j].hp = @ - v.state.enemies[j].touch * v.player.thorns * 100,
                       !.state.enemies[j].alive =
                         IF v.state.enemies[j].hp - v.state.enemies[j].touch * v.player.thorns * 100 <= 0
                         THEN FALSE ELSE @]
        ELSE v
      touch(v, j) ==
        IF v.state.enemies[j].touch > 0 /\ j \in rnd.touch
        THEN thorns(damagePlayer_fr(v, v.state.enemies[j].touch), j)
        ELSE v
      ai(v, j) == IF v.state.enemies[j].kind = "boss_proxy" THEN bossStep_fr(v, j, rnd) ELSE v
      doors(v, aliveCount) ==
        tryDoorTransition_fr(clearCheck_fr(v, aliveCount),
                             IF in.near \in Dirs THEN in.near ELSE "none")
      RECURSIVE enemies(_, _, _)
      enemies(v, j, aliveCount) ==
        IF j > Len(v.state.enemies) THEN doors(v, aliveCount)
        ELSE IF v.state.enemies[j].alive
        THEN enemies(ai(touch(v, j), j), j + 1, aliveCount + 1)
        ELSE enemies(v, j + 1, aliveCount)
      interact(v) == IF in.interact THEN tryInteract_fr(v, in, rnd) ELSE v
      seen(v) == [v EXCEPT !.ev.tried = IF in.interact THEN {in.near} ELSE {}]
  IN  IF w.state.mode # "play" THEN evReset(w, "update")
      ELSE seen(enemies(update_frb(interact(timers(w)), in, rnd), 1, 0))

\* The graph that genFloorGraph() returns for the next floor, as far as the
\* rooms around its start node go.
NextFloor_fr ==
  (<<0, 0>> :> [kind |-> "start", cleared |-> FALSE, locked |-> FALSE, seen |-> FALSE])
  @@ (<<0, -1>> :> [kind |-> "normal", cleared |-> FALSE, locked |-> FALSE, seen |-> FALSE])

\* The boss room "0,-1" after the player has entered it from the cleared
\* room "0,0", its only neighbour, and spawnRoomContents has run; the player
\* holds the Void Launcher and may hold the Split Core and the Spike Jacket
\* (thorns 0.12, here in 1/100; dmgMul is 1.22 with the Glass Heart, which
\* the player here does not hold).
Init_frboss ==
  \E core \in BOOLEAN : \E jacket \in BOOLEAN :
    /\ state = [mode |-> "play", score |-> 0, money |-> 0, pickups |-> <<>>,
                enemies |-> <<makeBoss_fr(1)>>, bullets |-> <<>>, bossAlive |-> TRUE,
                msg |-> "BOSS: MIRROR EXECUTOR", keys |-> 0, roomId |-> <<0, -1>>,
                floor |-> 1,
                map |-> (<<0, 0>> :> [kind |-> "normal", cleared |-> TRUE, locked |-> FALSE,
                                      seen |-> TRUE])
                        @@ (<<0, -1>> :> [kind |-> "boss", cleared |-> FALSE,
                                          locked |-> FALSE, seen |-> TRUE]),
                room |-> buildRoom_fr([kind |-> "boss", cleared |-> FALSE],
                                      [d \in Dirs |-> d = "S"])]
    /\ player = [hp |-> 100, hpMax |-> 100, lifeSteal |-> 0, weapon |-> "voidLauncher",
                 pierce |-> 0, bounce |-> 0, fireCD |-> 0,
                 shield |-> 35, shieldMax |-> 35, invT |-> 0,
                 thorns |-> IF jacket THEN 12 ELSE 0,
                 x |-> (204 * 10) \div 2, y |-> (156 - 14) * 10,
                 dmgMul |-> 100,
                 bulletsPerShotAdd |-> IF core THEN 1 ELSE 0]
    /\ WEAPONS = <<>>
    /\ ev = ("gone" :> <<>>) @@ [Declared.ev EXCEPT !.loot = <<0>>]

\* One frame in the boss room: the mouse button is held only while no bullet
\* is in flight and the player is at no door; the E key is pressed only
\* while no bullet is in flight, at the place where the boss was spawned or
\* elsewhere; a bullet that hits explodes at the centre of the enemy it hit,
\* no kill drops a coin, and enemies come within touch range only of a
\* player whose shield is full, while no bullet is fired or in flight.
Update_frboss ==
  \E fire \in BOOLEAN : \E near \in {"none", "S", "portal"} : \E interact \in BOOLEAN :
    \E bo \in [1..MaxBullets_fr -> {"fly", "wall", "hit"}] :
      \E at \in 1..Len(state.enemies) :
        \E crit \in (IF fire THEN [1..MaxBullets_fr -> BOOLEAN]
                     ELSE {[k \in 1..MaxBullets_fr |-> FALSE]}) :
          \E minion \in flag(Len(state.enemies) < MaxEnemies_fr
                              /\ state.enemies[1].alive /\ state.enemies[1].phase > 1) :
            \E touch \in IF player.shield = player.shieldMax /\ ~fire /\ state.bullets = <<>>
                         THEN SUBSET {j \in 1..Len(state.enemies) : state.enemies[j].alive}
                         ELSE {{}} :
              LET hit == \E i \in 1..MaxBullets_fr : bo[i] = "hit"
                  rnd == [bo |-> bo, at |-> at, blast |-> IF hit THEN {at} ELSE {},
                          falloff |-> 100, crit |-> crit, minion |-> minion,
                          money |-> 2, coin |-> FALSE, touch |-> touch,
                          floorMap |-> NextFloor_fr]
              IN  /\ state.roomId = <<0, -1>>
                  /\ fire => state.bullets = <<>> /\ near = "none" /\ ~interact
                  /\ interact => state.bullets = <<>> /\ near # "S"
                  /\ near = "portal" => interact
                  /\ \A i \in 1..MaxBullets_fr : i > Len(state.bullets) => bo[i] = "fly"
                  /\ \A k \in 1..MaxBullets_fr : k > 1 + player.bulletsPerShotAdd => ~crit[k]
                  /\ ~hit => at = 1
                  /\ \E w \in {update_frboss(World, [fire |-> fire, near |-> near,
                                                     interact |-> interact], rnd)} :
                       Becomes(w)

Next_frboss == Update_frboss

Spec_frboss == Init_frboss /\ [][Next_frboss]_vars

\* C19: in a tick in which the hp of the living boss falls from 66% of its
\* maximum or more to less than 66%, the boss's phase goes up by exactly one,
\* however far the hp falls; and a pattern the boss fires in a tick is the
\* pattern of the phase it is in after that tick.
C19_PhaseStepsByOne ==
  [][\A j \in 1..Len(state.enemies) :
       (/\ state.enemies[j].kind = "boss_proxy" /\ state'.enemies[j].alive
        /\ state.enemies[j].hp * 100 >= 66 * state.enemies[j].hpMax
        /\ state'.enemies[j].hp * 100 < 66 * state'.enemies[j].hpMax)
       => /\ state'.enemies[j].phase = state.enemies[j].phase + 1
          /\ \A k \in 1..Len(ev'.phase) :
               ev'.phase[k] = <<"radial 10", "aimed triple", "spiral">>[state'.enemies[j].phase]]_vars

\* C20: as long as the boss of the boss room is alive every door of the room
\* is closed and the boss room is the active room, whether or not other
\* enemies of the room are alive.
C20_BossRoomSealed ==
  (\E j \in 1..Len(state.enemies) :
     state.enemies[j].kind = "boss_proxy" /\ state.enemies[j].alive)
  => /\ \A d \in Dirs : ~state.room.doorsOpen[d]
     /\ state.roomId = <<0, -1>> /\ ev.trans = "none"

\* The boss, in its third phase, is alive and the minion it spawned is dead;
\* the room has a neighbour to the south.
C20_MinionDeadBossAlive ==
  /\ Len(state.enemies) = 2 /\ state.enemies[1].alive /\ ~state.enemies[2].alive
  /\ state.enemies[1].phase = 3 /\ state.room.neighbors["S"]

Step_frd == 80

\* room.g of a room without blocks, pits or puddles: the boundary is wall (0)
\* but for the four door gaps (floor, 1) and their frames (5).
tile_fr(tx, ty) ==
  LET mx == 17 \div 2
      my == 13 \div 2
  IN  IF ty \in {0, 12} /\ tx = mx THEN 1
      ELSE IF ty \in {0, 12} /\ tx \in {mx - 1, mx + 1} THEN 5
      ELSE IF tx \in {0, 16} /\ ty = my THEN 1
      ELSE IF tx \in {0, 16} /\ ty \in {my - 1, my + 1} THEN 5
      ELSE IF tx \in {0, 16} \/ ty \in {0, 12} THEN 0
      ELSE 1

\* tileAtWorld(wx, wy, room); (v / TILE) | 0 truncates towards zero.
tileAtWorld_fr(wx, wy) ==
  LET trunc(v) == IF v >= 0 THEN v \div 120 ELSE -((-v) \div 120)
  IN  IF trunc(wx) < 0 \/ trunc(wy) < 0 \/ trunc(wx) >= 17 \/ trunc(wy) >= 13 THEN 0
      ELSE tile_fr(trunc(wx), trunc(wy))

\* collideCircle(x, y, r, room) for the player's r = 5.2: ten samples on the
\* circle, r * cos and r * sin of the multiples of 36 degrees in 1/10 px.
collideCircle_fr(x, y) ==
  LET c == <<52, 42, 16, -16, -42, -52, -42, -16, 16, 42>>
      s == <<0, 31, 49, 49, 31, 0, -31, -49, -49, -31>>
  IN  \E i \in 1..10 : tileAtWorld_fr(x + c[i], y + s[i]) \in {0, 2, 4}

\* moveEntity(player, dt, room) with the displacement (dx, dy) = v * dt.
moveEntity_fr(w, dx, dy) ==
  LET r == w.state.room
      doorBlocked(nx, ny) ==
        \/ ~r.doorsOpen["N"] /\ r.neighbors["N"] /\ abs(nx - 1020) < 144 /\ ny < 156
        \/ ~r.doorsOpen["S"] /\ r.neighbors["S"] /\ abs(nx - 1020) < 144 /\ ny > 1560 - 156
        \/ ~r.doorsOpen["W"] /\ r.neighbors["W"] /\ abs(ny - 780) < 144 /\ nx < 156
        \/ ~r.doorsOpen["E"] /\ r.neighbors["E"] /\ abs(ny - 780) < 144 /\ nx > 2040 - 156
      nx == w.player.x + dx
      ny == w.player.y + dy
      \* axis resolve: first x, then y at the x just settled
      xs == {IF ~collideCircle_fr(nx, w.player.y) /\ ~doorBlocked(nx, w.player.y)
             THEN nx ELSE w.player.x}
      y1(x1) == IF ~collideCircle_fr(x1, ny) /\ ~doorBlocked(x1, ny) THEN ny ELSE w.player.y
  IN  CHOOSE v \in {[w EXCEPT !.player.x = clamp(x1, 100, 2040 - 100),
                              !.player.y = clamp(y1(x1), 100, 1560 - 100)] : x1 \in xs} : TRUE

\* tryDoorTransition(room) with its trigger test on the position and the
\* player put at the opposite side of the room entered; (dx, dy) is the
\* displacement that moveEntity has been called with.
doorway_frd(moved, dx, dy) ==
  LET x == moved.player.x
      y == moved.player.y
      nearTop == y < 80 /\ abs(x - 1020) < 180
      nearBot == y > 1560 - 80 /\ abs(x - 1020) < 180
      nearLeft == x < 80 /\ abs(y - 780) < 180
      nearRight == x > 2040 - 80 /\ abs(y - 780) < 180
      can(d) == moved.state.room.neighbors[d] /\ moved.state.room.doorsOpen[d]
      near == IF nearTop /\ can("N") THEN "N"
              ELSE IF nearBot /\ can("S") THEN "S"
              ELSE IF nearLeft /\ can("W") THEN "W"
              ELSE IF nearRight /\ can("E") THEN "E"
              ELSE "none"
      gone == tryDoorTransition_fr(moved, near)
      placed == IF gone.ev.trans = "N" THEN [gone EXCEPT !.player.y = 1560 - 140]
                ELSE IF gone.ev.trans = "S" THEN [gone EXCEPT !.player.y = 140]
                ELSE IF gone.ev.trans = "W" THEN [gone EXCEPT !.player.x = 2040 - 140]
                ELSE IF gone.ev.trans = "E" THEN [gone EXCEPT !.player.x = 140]
                ELSE gone
  IN  [placed EXCEPT !.ev.tried = {d \in Dirs : dxOf(d) * dx + dyOf(d) * dy > 0}]

\* buildFloor(): the player at (ROOM_W * 0.5, ROOM_H * 0.65) of the start
\* room, whose doors (the start room is no combat room) are open.
Init_frd ==
  LET floorMap == [id \in {<<0, 0>>, <<0, -1>>, <<1, 0>>} |->
                     [kind |-> IF id = <<0, 0>> THEN "start" ELSE "normal",
                      cleared |-> FALSE, locked |-> FALSE, seen |-> FALSE]]
      w == buildFloor_fr([state |-> [mode |-> "play", keys |-> 0, floor |-> 1, map |-> <<>>,
                                     roomId |-> <<0, 0>>, enemies |-> <<>>, bullets |-> <<>>,
                                     pickups |-> <<>>, bossAlive |-> FALSE, room |-> <<>>,
                                     msg |-> ""],
                          player |-> [x |-> 0, y |-> 0], WEAPONS |-> <<>>,
                          ev |-> Declared.ev],
                         floorMap)
  IN  /\ state = w.state
      /\ player = w.player
      /\ WEAPONS = w.WEAPONS
      /\ ev = w.ev

\* One frame in which the player moves by (dx, dy): update(dt) as far as the
\* player's position goes, moveEntity and then tryDoorTransition.
Update_frd(dx, dy) ==
  \E moved \in {moveEntity_fr(evReset(World, "update"), dx, dy)} :
    \E w \in {doorway_frd(moved, dx, dy)} : Becomes(w)

Next_frd == \E dx \in {-Step_frd, 0, Step_frd} : \E dy \in {-Step_frd, 0, Step_frd} : Update_frd(dx, dy)

\* Frames keep coming (requestAnimationFrame): a player who holds the key
\* for north down is moved north for as long as that changes anything.
Spec_frd == Init_frd /\ [][Next_frd]_vars /\ WF_vars(Update_frd(0, -Step_frd))

\* C26: a player in the start room who moves north in the middle of the room
\* (x = ROOM_W / 2), into the open doorway to the room "0,-1", gets into that
\* room unless the player stops moving north.
C26_DoorwayLeadsOn ==
  (state.roomId = <<0, 0>> /\ ev.tried = {"N"} /\ player.x = 1020)
    ~> (state.roomId # <<0, 0>> \/ ev.tried # {"N"})

\* The clamp of moveEntity keeps the player out of the trigger region of
\* the north doorway (player.y < 8).
OutOfTheDoorway_frd ==
  ~(player.y < 80 /\ abs(player.x - 1020) < 180)

(***************************************************************************)
(* n.js and part_000: key events and frames.  The browser runs the         *)
(* callbacks onKeyDown, onKeyUp and frame one at a time, in any order.     *)
(* state.program says which of the two programs runs; ev.waiting holds the *)
(* keys that went down since the last frame, and ev.seen[k] counts the     *)
(* update calls during which wasPressed(k) was true since k last went down *)
(* (-1: k never went down).                                                *)
(***************************************************************************)
\* KEY.ESC, KEY.Q and KEY.E.
Keys_k == {27, 81, 69}

\* ev.seen counts up to this.
MaxSeen_k == 2

\* onKeyDown(e)
onKeyDown_k(w, k) ==
  IF k \notin w.state.keys
  THEN [w EXCEPT !.state.keysPressed = @ \cup {k}, !.state.keys = @ \cup {k},
                 !.ev.op = "keydown", !.ev.waiting = @ \cup {k}, !.ev.seen[k] = 0]
  ELSE [w EXCEPT !.ev.op = "keydown"]

\* onKeyUp(e)
onKeyUp_k(w, k) == [w EXCEPT !.state.keys = @ \ {k}, !.ev.op = "keyup"]

\* update(dt) as far as it reads wasPressed: ESC pauses and resumes, and in
\* n.js Q and E choose the weapon (part_000 reads Q and E in shop rooms
\* only, and the player here is in the start room).
update_k(w) ==
  LET wasPressed(code) == code \in w.state.keysPressed
      observed == [w EXCEPT !.ev.waiting = {},
                            !.ev.seen = [k \in Keys_k |->
                                           IF wasPressed(k) /\ @[k] < MaxSeen_k
                                           THEN @[k] + 1 ELSE @[k]]]
      q(v) == IF wasPressed(81) /\ v.state.program = "n.js"
              THEN [v EXCEPT !.player.weapon = 0] ELSE v
      e(v) == IF wasPressed(69) /\ v.state.program = "n.js"
              THEN [v EXCEPT !.player.weapon = 1] ELSE v
  IN  IF w.state.paused
      THEN (IF wasPressed(27) THEN [observed EXCEPT !.state.paused = FALSE] ELSE observed)
      ELSE e(q(IF wasPressed(27) THEN [observed EXCEPT !.state.paused = TRUE] ELSE observed))

\* frame(t) of n.js: keysPressed = {}; update(dt); draw();
frame_kjs(w) ==
  IF ~w.state.running THEN w
  ELSE update_k([w EXCEPT !.state.keysPressed = {}, !.ev.op = "frame"])

\* frame(t) of part_000: update(dt); draw(); keysPressed = {};
frame_kp0(w) ==
  IF ~w.state.running THEN w
  ELSE [update_k([w EXCEPT !.ev.op = "frame"]) EXCEPT !.state.keysPressed = {}]

\* start() of either program: no key is down.
Init_k ==
  \E program \in {"n.js", "part_000"} :
    /\ state = [program |-> program, running |-> TRUE, paused |-> FALSE, keys |-> {},
                keysPressed |-> {}]
    /\ player = [weapon |-> 0]
    /\ WEAPONS = <<>>
    /\ ev = [op |-> "init", waiting |-> {}, seen |-> [k \in Keys_k |-> -1]]

KeyDown_k == \E k \in Keys_k : \E w \in {onKeyDown_k(World, k)} : Becomes(w)

KeyUp_k == \E k \in Keys_k : k \in state.keys /\ \E w \in {onKeyUp_k(World, k)} : Becomes(w)

Frame_kjs == state.program = "n.js" /\ \E w \in {frame_kjs(World)} : Becomes(w)

Frame_kp0 == state.program = "part_000" /\ \E w \in {frame_kp0(World)} : Becomes(w)

Next_k == KeyDown_k \/ KeyUp_k \/ Frame_kjs \/ Frame_kp0

Spec_k == Init_k /\ [][Next_k]_vars

\* The press of a key that was not held is seen by at most one update call,
\* and by one as soon as a frame has run after it.
SeenOnce_k ==
  \A k \in Keys_k :
    /\ ev.seen[k] <= 1
    /\ ev.seen[k] >= 0 /\ k \notin ev.waiting => ev.seen[k] = 1

\* C27: in both programs, every key-down event of a key that was not held is
\* observed as pressed (wasPressed) by exactly one later update call.
C27_EveryPressSeenOnce == SeenOnce_k

\* In part_000, where frame clears keysPressed after update, every press is
\* seen exactly once.
PressSeenOnce_p0 == state.program = "part_000" => SeenOnce_k

(***************************************************************************)
(* part_000 and n.js: bullets in flight.  The player and an enemy shoot,   *)
(* and updateBullets moves the bullets.  Each bullet carries the number    *)
(* (id) of the shot that made it, ev.kinds holds what each bullet of the   *)
(* list met in the last pass and ev.left the ids of the bullets before it. *)
(***************************************************************************)
\* A bullet lives this many ticks (1.05 s, or 1.6 s for an enemy's bullet,
\* in the source).
Life_b == 2

\* Shots fired in a run of the model.
MaxShots_b == 4

\* Bullets in flight at once.
MaxBullets_b == 3

\* resetGame() and a combat room entered: one enemy, no bullet yet.
Init_b ==
  /\ state = [paused |-> FALSE, msg |-> "", msgT |-> 0, cam |-> [shake |-> 0, shakeT |-> 0],
              enemies |-> <<[type |-> "chaser", hp |-> 3 * MaxShots_b]>>, bullets |-> <<>>,
              shots |-> 0]
  /\ player = [hp |-> 6, hpMax |-> 6, invT |-> 0]
  /\ WEAPONS = <<>>
  /\ ev = [Declared.ev EXCEPT !.op = "init"]

\* shoot() of the player (dmg 2) or of the enemy (dmg 1): spawnBullet.
Shoot_b ==
  \E from \in {"player", "enemy"} :
    /\ ~state.paused
    /\ state.shots < MaxShots_b
    /\ Len(state.bullets) < MaxBullets_b
    /\ Becomes([evReset(World, "shoot") EXCEPT
                  !.state.shots = @ + 1,
                  !.state.bullets = Append(@, [from |-> from, t |-> Life_b, id |-> state.shots + 1,
                                               dmg |-> IF from = "player" THEN 2 ELSE 1])])

\* update(dt): the timers and updateBullets(dt); bo[i] is what the bullet at
\* index i meets.
Update_b ==
  \E bo \in [1..Len(state.bullets) -> {"wall", "hit", "fly"}] :
    /\ ~state.paused
    /\ state.bullets # <<>>
    /\ \E w \in {updateBullets([evReset(World, "bullets") EXCEPT
                                  !.player.invT = countdown(@),
                                  !.state.cam.shakeT = countdown(@)],
                               [bo |-> bo])} :
         Becomes([w EXCEPT !.ev.kinds = bo,
                           !.ev.left = [i \in 1..Len(state.bullets) |-> state.bullets[i].id]])

Next_b == Shoot_b \/ Update_b

Spec_b == Init_b /\ [][Next_b]_vars

\* C28: a pass of updateBullets removes a bullet only if that bullet met a
\* solid tile or an opposing entity, or if its own lifetime has run out.
C28_OnlyItsOwnEnd ==
  [][ev'.op = "bullets"
     => \A i \in 1..Len(state.bullets) :
          (\A j \in 1..Len(state'.bullets) : state'.bullets[j].id # state.bullets[i].id)
            => \/ ev'.kinds[i] \in {"wall", "hit"}
               \/ state.bullets[i].t - 1 <= 0]_vars

\* C29 (n.mjs): a room entered again holds no pickup that was not in it when
\* it was last left (a pickup collected before is not made again), and no
\* more enemies than it was left with.
C29_PopulatedOnce ==
  [][ev'.trans # "none" /\ state'.roomId \in DOMAIN ev.left
     => LET left == ev.left[state'.roomId]
        IN  /\ \A i \in 1..Len(state'.pickups) :
                 \E j \in 1..Len(left.pickups) : left.pickups[j] = state'.pickups[i]
            /\ Len(state'.enemies) <= Len(left.enemies)]_vars

\* C30 (second program): a leave stores a snapshot in a room (stashRoom) only
\* if the room has none yet; a snapshot once stored stays as it is.
C30_SnapshotKept ==
  [][\A id \in DOMAIN state.rooms :
       state.rooms[id].cache # <<>> => state'.rooms[id].cache = state.rooms[id].cache]_vars

(***************************************************************************)
(* FREEDOM: the tiles under the player.  buildFloor() places the player in *)
(* the start room, whose tiles genRoomTiles("start") has rolled; rnd.last  *)
(* is the last value that the 120 tries have set at each of the tiles      *)
(* Rolled_frt (1: none of the tries has changed the tile), the other tiles *)
(* of the interior stay floor.  The player then makes up to MaxMoves_frt   *)
(* moves of Step_frd.                                                      *)
(***************************************************************************)
\* The tiles whose roll is followed: the tile of the start position, the
\* one east of it and the lowest middle tile of the centre patch.
Rolled_frt == {<<8, 8>>, <<9, 8>>, <<8, 7>>}

MaxMoves_frt == 3

\* genRoomTiles(kind): the grid as a function of the tile (tx, ty).
genRoomTiles_fr(kind, rnd) ==
  [t \in (0..16) \X (0..12) |->
     IF t[1] \in 7..9 /\ t[2] \in 5..7 THEN 1
     ELSE IF t \in Rolled_frt /\ t[1] \in 2..14 /\ t[2] \in 2..10
     THEN (IF kind = "shop" /\ rnd.last[t] = 2 THEN 1 ELSE rnd.last[t])
     ELSE tile_fr(t[1], t[2])]

\* collideCircle(x, y, r, room) for the player's r = 5.2 on the grid g.
collideCircleOn_fr(g, x, y) ==
  LET c == <<52, 42, 16, -16, -42, -52, -42, -16, 16, 42>>
      s == <<0, 31, 49, 49, 31, 0, -31, -49, -49, -31>>
      trunc(v) == IF v >= 0 THEN v \div 120 ELSE -((-v) \div 120)
      at(wx, wy) == IF trunc(wx) < 0 \/ trunc(wy) < 0 \/ trunc(wx) >= 17 \/ trunc(wy) >= 13
                    THEN 0 ELSE g[<<trunc(wx), trunc(wy)>>]
  IN  \E i \in 1..10 : at(x + c[i], y + s[i]) \in {0, 2, 4}

\* buildFloor() and getRoom("0,0"): the tiles are rolled and the player is
\* placed at (ROOM_W * 0.5, ROOM_H * 0.65).
Init_frt ==
  \E last \in [Rolled_frt -> {1, 2, 3, 4}] :
    /\ state = [mode |-> "play", floor |-> 1, roomId |-> <<0, 0>>,
                room |-> [kind |-> "start", g |-> genRoomTiles_fr("start", [last |-> last])]]
    /\ player = [x |-> (204 * 10) \div 2, y |-> (156 * 65) \div 10]
    /\ WEAPONS = <<>>
    /\ ev = [Declared.ev EXCEPT !.op = "floor"]

\* update(dt): moveEntity(player, dt, room) with the displacement (dx, dy);
\* the doors of the start room are open.
Update_frt ==
  \E d \in Dirs :
    /\ ev.moves < MaxMoves_frt
    /\ \E x1 \in {IF ~collideCircleOn_fr(state.room.g, player.x + dxOf(d) * Step_frd, player.y)
                  THEN player.x + dxOf(d) * Step_frd ELSE player.x} :
       \E y1 \in {IF ~collideCircleOn_fr(state.room.g, x1, player.y + dyOf(d) * Step_frd)
                  THEN player.y + dyOf(d) * Step_frd ELSE player.y} :
         Becomes([evReset(World, "update") EXCEPT
                    !.player.x = clamp(x1, 100, 2040 - 100),
                    !.player.y = clamp(y1, 100, 1560 - 100),
                    !.ev.moves = @ + 1, !.ev.tried = {d}])

Next_frt == Update_frt

Spec_frt == Init_frt /\ [][Next_frt]_vars

\* C31: where buildFloor has placed the player, the player's circle overlaps
\* no wall, pit or block, and the tile of that position is in the centre
\* patch (tiles 7..9 by 5..7) that genRoomTiles sets to floor.
C31_PlacedOnFloor ==
  ev.op = "floor"
    => /\ ~collideCircleOn_fr(state.room.g, player.x, player.y)
       /\ player.x \div 120 \in 7..9 /\ player.y \div 120 \in 5..7

\* C32 (n.js): the key count is never negative and the active room is never
\* a treasure room whose node is still locked.
C32_NeverInsideLockedTreasure ==
  /\ state.keys >= 0
  /\ ~(state.map[state.roomId].kind = "treasure" /\ state.map[state.roomId].locked)

\* C33 (FREEDOM): a floor with a locked treasure room has a key room that a
\* chain of edges joins to the start room without passing through the locked
\* treasure room or the boss room.
C33_KeyBeforeTheLock ==
  LET nodes == state.map.nodes
      barred(k) == nodes[k].kind = "boss" \/ (nodes[k].kind = "treasure" /\ nodes[k].locked)
      RECURSIVE grow(_)
      grow(S) ==
        LET T == S \cup {b \in DOMAIN nodes : ~barred(b) /\ \E a \in S : <<a, b>> \in state.map.edges}
        IN  IF T = S THEN S ELSE grow(T)
  IN  (\E t \in DOMAIN nodes : nodes[t].kind = "treasure" /\ nodes[t].locked)
        => \E k \in grow({roomKey(0, 0)}) : nodes[k].kind = "key"

(***************************************************************************)
(* FREEDOM: what the player pays for and the player's health.  A combat    *)
(* room with its drops is followed by the floor's shop; hp and shield are  *)
(* whole points.                                                           *)
(***************************************************************************)

\* Weapon and item a shop slot may offer (rollWeaponId, rollItemId).
Rolled_frs == {<<"weapon", "rail">>, <<"item", "glass_heart">>, <<"item", "vamp_wires">>,
               <<"item", "ion_cap">>}

\* Points of damage one hit may deal.
Hits_frs == {20, 60}

\* A giveItem whose Glass Heart lowers hpMax and leaves hp as it is.
giveItemKeepsHp(w, itemId) ==
  IF itemId \in w.player.items THEN w
  ELSE IF itemId = "glass_heart"
  THEN [w EXCEPT !.player.items = @ \cup {itemId}, !.player.hpMax = (@ * 82) \div 100]
  ELSE IF itemId = "ion_cap"
  THEN [w EXCEPT !.player.items = @ \cup {itemId}, !.player.shieldMax = @ + 10,
                 !.player.shield = @ + 10]
  ELSE [w EXCEPT !.player.items = @ \cup {itemId}, !.player.lifeSteal = @ + 2]

\* giveItem(itemId) with the apply() of the Items table: an item already
\* owned is not given again.
giveItem_fr(w, itemId) ==
  LET apply(v) ==
        IF itemId = "glass_heart"
        THEN LET hpMax == IF (v.player.hpMax * 82) \div 100 < 40 THEN 40
                          ELSE (v.player.hpMax * 82) \div 100
             IN  [v EXCEPT !.player.hpMax = hpMax,
                           !.player.hp = IF @ < hpMax THEN @ ELSE hpMax]
        ELSE IF itemId = "ion_cap"
        THEN [v EXCEPT !.player.shieldMax = @ + 10,
                       !.player.shield = IF @ + 10 < v.player.shieldMax + 10 THEN @ + 10
                                         ELSE v.player.shieldMax + 10]
        ELSE [v EXCEPT !.player.lifeSteal = @ + 2]
  IN  IF itemId \in w.player.items THEN w
      ELSE apply([w EXCEPT !.player.items = @ \cup {itemId}])

\* The shop's inventory of buildRoom on floor 1 and the slots loadRoom lays out.
shopItems_fr(floor, rnd) ==
  << [type |-> "heal", what |-> "", price |-> 18 + floor * 4],
     [type |-> "shield", what |-> "", price |-> 16 + floor * 4],
     [type |-> rnd.third[1], what |-> rnd.third[2],
      price |-> IF rnd.third[1] = "weapon" THEN 36 + floor * 8 ELSE 42 + floor * 8],
     [type |-> rnd.fourth[1], what |-> rnd.fourth[2],
      price |-> IF rnd.fourth[1] = "weapon" THEN 48 + floor * 10 ELSE 56 + floor * 10] >>

\* tryInteract(room) where the closest interactable is a shop slot (best is its index in
\* state.pickups, 0 for none); the shake amount is in tenths.
tryInteractShop_fr(w, best) ==
  LET p == w.state.pickups[best]
      offer == w.state.room.shopItems[p.idx]
      paid == [w EXCEPT !.state.money = @ - offer.price]
      cap(v, m) == IF v < m THEN v ELSE m
      got == IF offer.type = "heal"
             THEN [paid EXCEPT !.player.hp = cap(@ + 35, paid.player.hpMax)]
             ELSE IF offer.type = "shield"
             THEN [paid EXCEPT !.player.shield = cap(@ + 25, paid.player.shieldMax)]
             ELSE IF offer.type = "weapon" THEN equipWeapon_fr(paid, offer.what)
             ELSE giveItem_fr(paid, offer.what)
  IN  IF best = 0 THEN w
      ELSE IF p.type # "shop" THEN w
      ELSE IF offer.type = "sold" THEN w
      ELSE IF w.state.money < offer.price
      THEN [w EXCEPT !.state.msg = "NOT ENOUGH CREDITS"]
      ELSE shake([got EXCEPT !.state.pickups = splice(@, best),
                             !.state.room.shopItems[p.idx].type = "sold",
                             !.state.msg = "PURCHASED"], 15, 8)

\* pickupCollect(room): the coin, hp and item pickups within reach.
pickupCollect_fr(w, reach) ==
  LET RECURSIVE each(_, _)
      each(v, i) ==
        IF i = 0 THEN v
        ELSE LET p == v.state.pickups[i]
                 took == IF p.type = "coin" THEN [v EXCEPT !.state.money = @ + p.amt]
                         ELSE IF p.type = "hp"
                         THEN [v EXCEPT !.player.hp = IF @ + p.amt < v.player.hpMax
                                                      THEN @ + p.amt ELSE v.player.hpMax]
                         ELSE giveItem_fr(v, p.what)
             IN  IF p.type = "shop" \/ i \notin reach THEN each(v, i - 1)
                 ELSE each([took EXCEPT !.state.pickups = splice(@, i)], i - 1)
  IN  each(w, Len(w.state.pickups))

Init_frs ==
  \E money \in {0, 60, 200} :
    /\ state = [mode |-> "play", floor |-> 1, money |-> money, msg |-> "",
                cam |-> [shake |-> 0, shakeT |-> 0],
                room |-> [kind |-> "combat", shopItems |-> <<>>],
                pickups |-> <<[type |-> "coin", idx |-> 0, what |-> "", amt |-> 30],
                              [type |-> "hp", idx |-> 0, what |-> "", amt |-> 18],
                              [type |-> "item", idx |-> 0, what |-> "vamp_wires", amt |-> 1]>>]
    /\ player = [hp |-> 100, hpMax |-> 100, shield |-> 35, shieldMax |-> 35, invT |-> 0,
                 lifeSteal |-> 0, items |-> {}, weapon |-> "starter_pistol", clip |-> 10,
                 clipMax |-> 10, ammo |-> 999, reloadT |-> 0, fireCD |-> 0]
    /\ WEAPONS = <<>>
    /\ ev = Declared.ev

\* update(dt) in the combat room: the timers, a hit of dmg points (0 for
\* none) and the pickups within reach.
Update_frs ==
  \E dmg \in {0} \cup Hits_frs : \E reach \in SUBSET (1..3) :
    /\ state.mode = "play"
    /\ state.room.kind = "combat"
    /\ \E t \in {[World EXCEPT !.player.invT = countdown(@)]} :
         \E h \in {IF dmg > 0 THEN damagePlayer_fr(t, dmg) ELSE t} :
           \E w \in {IF h.state.mode = "play" THEN pickupCollect_fr(h, reach) ELSE h} :
             Becomes(evReset(w, "update"))

\* The player walks on into the floor's shop: loadRoom lays out one slot
\* for every offer of the room's inventory.
LoadShop_frs ==
  \E third \in Rolled_frs : \E fourth \in Rolled_frs \ {<<"item", "glass_heart">>, <<"item", "ion_cap">>} :
    /\ state.mode = "play"
    /\ state.room.kind = "combat"
    /\ Becomes(evReset([World EXCEPT
         !.state.room = [kind |-> "shop",
                         shopItems |-> shopItems_fr(state.floor,
                                                    [third |-> third, fourth |-> fourth])],
         !.state.pickups = [i \in 1..4 |-> [type |-> "shop", idx |-> i, what |-> "",
                                            amt |-> 0]]], "load"))

\* update(dt) in the shop with E pressed next to a slot.
Interact_frs ==
  \E best \in 1..4 :
    /\ state.mode = "play"
    /\ state.room.kind = "shop"
    /\ best <= Len(state.pickups)
    /\ \E w \in {tryInteractShop_fr(World, best)} : Becomes(evReset(w, "interact"))

Next_frs == Update_frs \/ LoadShop_frs \/ Interact_frs

Spec_frs == Init_frs /\ [][Next_frs]_vars

\* C34: a shop purchase that takes money from the player changes the
\* player's hp, shield, weapon or items.
C34_PaidForAnEffect ==
  [][ev'.op = "interact" /\ state'.money < state.money
       => \/ player'.hp # player.hp
          \/ player'.shield # player.shield
          \/ player'.weapon # player.weapon
          \/ player'.items # player.items]_vars

(***************************************************************************)
(* The neighbour flags of part_000 and n.js.                               *)
(***************************************************************************)

\* C35: a room whose neighbours flag for a direction is set has a room and
\* a node at the adjacent coordinate, and that room's flag for the opposite
\* direction is set.
C35_NeighboursSymmetric ==
  \A id \in DOMAIN state.rooms : \A d \in Dirs :
    state.rooms[id].neighbors[d]
      => LET nid == roomKey(id[1] + dxOf(d), id[2] + dyOf(d))
         IN  /\ nid \in DOMAIN state.rooms
             /\ nid \in DOMAIN state.map
             /\ state.rooms[nid].neighbors[opposite(d)]

\* The player has walked two rooms away from the start and neighbours were
\* built around each room on the way.
C35_BuiltAroundThreeRooms ==
  /\ abs(state.roomId[1]) + abs(state.roomId[2]) = 2
  /\ \E d \in Dirs : state.rooms[state.roomId].neighbors[d]
  /\ \E d \in Dirs : ~state.rooms[state.roomId].neighbors[d]

\* C36: while the player is in a peaceful room (start, shop, heal or armory)
\* of the second program, from its load on, the live enemy list is empty,
\* the node is cleared and every door toward a neighbour is open.
C36_PeacefulRoomOpen ==
  state.map[state.roomId].kind \in {"start", "shop", "heal", "armory"}
    => /\ state.enemies = <<>>
       /\ state.map[state.roomId].cleared
       /\ \A d \in Dirs : state.rooms[state.roomId].neighbors[d]
                            => state.rooms[state.roomId].doorsOpen[d]

\* The update that has just taken the player into the heal room or into the
\* armory, coming from a combat room.
C36_EnteredPeaceful ==
  /\ ev.trans # "none"
  /\ state.map[state.roomId].kind \in {"heal", "armory"}
  /\ \E d \in Dirs : state.rooms[state.roomId].neighbors[d]

\* 0 <= hp <= hpMax
HpInRange == 0 <= player.hp /\ player.hp <= player.hpMax

StatusTicks_fre == 2
FireTicks_fre == 2
BulletTicks_fre == 1

\* Minions the boss may call in one behaviour.
MaxMinions_fre == 1

\* The player's bullets: dmg with the slow and shock they carry.
Shots_fre ==
  {[dmg |-> 10, slow |-> 0, shock |-> 0], [dmg |-> 10, slow |-> StatusTicks_fre, shock |-> 0],
   [dmg |-> 10, slow |-> 0, shock |-> StatusTicks_fre], [dmg |-> 250, slow |-> 0, shock |-> 0]}

\* makeEnemy(kind, x, y, tier) for tier 1, as far as the enemy loop reads it.
makeEnemy_fre(kind, fireCD) ==
  LET of == [shooter |-> [hp |-> 29, ai |-> "kite"], drone |-> [hp |-> 24, ai |-> "orbit"],
             turret |-> [hp |-> 44, ai |-> "turret"], spitter |-> [hp |-> 34, ai |-> "lob"],
             runner |-> [hp |-> 32, ai |-> "chase"], boss_proxy |-> [hp |-> 660, ai |-> "boss"]][kind]
  IN  [kind |-> kind, ai |-> of.ai, hp |-> of.hp, hpMax |-> of.hp, alive |-> TRUE,
       fireCD |-> IF kind = "boss_proxy" THEN FireTicks_fre ELSE fireCD,
       frozenT |-> 0, shockedT |-> 0, phase |-> 1]

\* A slowMul that looks at the shock first.
slowMulShockFirst(e) == IF e.shockedT > 0 THEN 70 ELSE IF e.frozenT > 0 THEN 15 ELSE 100

\* slowMul of the enemy loop, in hundredths.
slowMul_fr(e) == IF e.frozenT > 0 THEN 15 ELSE IF e.shockedT > 0 THEN 70 ELSE 100

\* damageEnemy(e, dmg, fromBullet) with its status procs; drops and score
\* are not followed.
damageEnemyFrom_fr(w, i, b, rnd) ==
  LET e == w.state.enemies[i]
      max(a, c) == IF a > c THEN a ELSE c
      frozen == max(IF b.slow > 0 THEN max(e.frozenT, b.slow) ELSE e.frozenT,
                    IF w.player.onHitFreeze > 0 /\ rnd.freeze THEN StatusTicks_fre ELSE 0)
      shocked == max(IF b.shock > 0 THEN max(e.shockedT, b.shock) ELSE e.shockedT,
                     IF w.player.onHitShock > 0 /\ rnd.shock THEN StatusTicks_fre ELSE 0)
  IN  IF ~e.alive THEN w
      ELSE [w EXCEPT !.state.enemies[i].hp = @ - b.dmg,
                     !.state.enemies[i].frozenT = frozen,
                     !.state.enemies[i].shockedT = shocked,
                     !.state.enemies[i].alive = e.hp - b.dmg > 0,
                     !.state.bossAlive = IF e.hp - b.dmg <= 0 /\ e.kind = "boss_proxy"
                                         THEN FALSE ELSE @]

\* n enemy bullets pushed by the enemy at index i.
pushBullets_fre(w, i, n) ==
  phase([w EXCEPT !.state.bullets = @ \o [k \in 1..n |-> [from |-> "e", life |-> BulletTicks_fre]]],
        <<"shot", i>>)

\* update(dt): the bullet loop (enemy bullets age and expire, the player's
\* bullet b meets the enemy rnd.hit, 0 for none) and the enemy loop.
update_fre(w, b, rnd) ==
  LET aged(v) == [v EXCEPT !.state.bullets =
                    SelectSeq([k \in 1..Len(@) |-> [@[k] EXCEPT !.life = @ - 1]],
                              LAMBDA x : x.life >= 0)]
      hit(v) == IF rnd.hit \in 1..Len(v.state.enemies)
                THEN damageEnemyFrom_fr(v, rnd.hit, b, rnd) ELSE v
      timers(v, i) ==
        [v EXCEPT !.state.enemies[i].frozenT = countdown(@),
                  !.state.enemies[i].shockedT = countdown(@)]
      cool(v, i) == [v EXCEPT !.state.enemies[i].fireCD = IF @ > -1 THEN @ - 1 ELSE @]
      ready(v, i) == v.state.enemies[i].fireCD <= 0 /\ slowMul_fr(v.state.enemies[i]) > 20
      rearm(v, i) == [v EXCEPT !.state.enemies[i].fireCD = FireTicks_fre]
      phases(v, i) ==
        LET e == v.state.enemies[i]
            two == e.hp * 100 < 66 * e.hpMax /\ e.phase = 1
            p2 == IF two THEN 2 ELSE e.phase
            three == e.hp * 100 < 33 * e.hpMax /\ p2 = 2
        IN  [v EXCEPT !.state.enemies[i].phase = IF three THEN 3 ELSE p2,
                      !.state.msg = IF three THEN "BOSS PHASE 3"
                                    ELSE IF two THEN "BOSS PHASE 2" ELSE @]
      minion(v, i) ==
        IF rnd.minion # "none"
        THEN phase([v EXCEPT !.state.enemies = Append(@, makeEnemy_fre(rnd.minion, rnd.fireCD))],
                   <<"minion", i>>)
        ELSE v
      boss(v, i) ==
        IF ~ready(v, i) THEN v
        ELSE IF v.state.enemies[i].phase = 1 THEN pushBullets_fre(rearm(v, i), i, 10)
        ELSE IF v.state.enemies[i].phase = 2
        THEN pushBullets_fre(rearm(v, i), i, IF rnd.radial THEN 11 ELSE 3)
        ELSE minion(pushBullets_fre(rearm(v, i), i, 14), i)
      ai(v, i) ==
        LET e == v.state.enemies[i]
        IN  IF e.ai = "chase" THEN v
            ELSE IF e.ai = "boss" THEN boss(cool(phases(v, i), i), i)
            ELSE IF ready(cool(v, i), i)
            THEN pushBullets_fre(rearm(cool(v, i), i), i, IF e.ai = "turret" THEN 3 ELSE 1)
            ELSE cool(v, i)
      RECURSIVE each(_, _, _)
      each(v, i, n) ==
        IF i > n THEN v
        ELSE IF ~v.state.enemies[i].alive THEN each(v, i + 1, n)
        ELSE each(ai(timers(v, i), i), i + 1, n)
  IN  each(hit(aged(evReset(w, "update"))), 1, Len(w.state.enemies))

Init_fre ==
  \E kind \in {"shooter", "drone", "turret", "spitter", "boss_proxy"} :
    \E fireCD \in 1..FireTicks_fre : \E proc \in BOOLEAN :
      /\ state = [mode |-> "play", msg |-> "", bossAlive |-> kind = "boss_proxy",
                  enemies |-> <<makeEnemy_fre(kind, fireCD)>>, bullets |-> <<>>]
      /\ player = [onHitFreeze |-> IF proc THEN 8 ELSE 0, onHitShock |-> IF proc THEN 10 ELSE 0]
      /\ WEAPONS = <<>>
      /\ ev = Declared.ev

\* One frame: the player's bullet b meets the enemy at index hit or none;
\* of the two passive procs one falls (the freeze when proc is drawn, else
\* the shock), and the boss's draws fall as drawn.
Update_fre ==
  \E hit \in 0..Len(state.enemies) :
    \E b \in IF hit = 0 THEN {[dmg |-> 10, slow |-> 0, shock |-> 0]} ELSE Shots_fre :
      \E proc \in IF hit # 0 /\ player.onHitFreeze > 0 THEN BOOLEAN ELSE {FALSE} :
        \E radial \in IF state.bossAlive THEN BOOLEAN ELSE {FALSE} :
          \E minion \in IF state.bossAlive /\ Len(state.enemies) <= MaxMinions_fre
                        THEN {"none", "runner", "drone"} ELSE {"none"} :
            /\ state.mode = "play"
            /\ \E w \in {update_fre(World, b, [hit |-> hit, freeze |-> proc, shock |-> ~proc,
                                               radial |-> radial, minion |-> minion,
                                               fireCD |-> 1])} :
                 Becomes(w)

Next_fre == Update_fre

Spec_fre == Init_fre /\ [][Next_fre]_vars

\* C38: an enemy whose frozen timer is still positive when the enemy loop
\* has counted it down fires no bullet and calls no minion in that tick,
\* shocked or not; a living enemy of a firing archetype that is shocked and
\* not frozen, with its fireCD run out, fires.
C38_FrozenHoldsFire ==
  [][ev'.op = "update"
       => \A i \in DOMAIN state.enemies :
            LET e == state'.enemies[i]
                acted == \E k \in DOMAIN ev'.phase : ev'.phase[k][2] = i
            IN  /\ e.frozenT > 0 => ~acted
                /\ (e.alive /\ e.frozenT <= 0 /\ e.shockedT > 0 /\ e.ai # "chase"
                      /\ state.enemies[i].fireCD <= 1)
                     => \E k \in DOMAIN ev'.phase : ev'.phase[k] = <<"shot", i>>]_vars

\* The boss in its third phase, frozen and shocked at once, with its fireCD
\* run out.
C38_BossFrozenAndShocked ==
  /\ ev.op = "update"
  /\ \E i \in DOMAIN state.enemies :
       /\ state.enemies[i].ai = "boss" /\ state.enemies[i].phase = 3
       /\ state.enemies[i].alive
       /\ state.enemies[i].frozenT > 0 /\ state.enemies[i].shockedT > 0
       /\ state.enemies[i].fireCD <= 0

(***************************************************************************)
(* FREEDOM: chain lightning among three enemies standing on one line.      *)
(***************************************************************************)

\* The greatest chain a bullet carries here (the Tesla Fork has chain 2).
MaxChain_frc == 3

\* Bullets that hit in one behaviour.
MaxHits_frc == 3

\* chainShock(originEnemy, dmg, chains) with the enemies' places: each hop
\* goes to the closest live enemy other than the last one that is less than
\* 110 px away (the first of them in state.enemies on a tie), and leaves in
\* ev.phase the enemy it went to, the damage dealt there and the reach the
\* hop was tested against.
chainShock_frc(w, origin, dmg, chains, rnd) ==
  LET RECURSIVE hop(_, _, _, _)
      hop(v, last, d, i) ==
        LET d2(j) == dist2(v.state.enemies[last].x, 0, v.state.enemies[j].x, 0)
            cand == {j \in 1..Len(v.state.enemies) :
                       v.state.enemies[j].alive /\ j # last /\ d2(j) < 110 * 110}
            best == CHOOSE j \in cand :
                      \A m \in cand : d2(j) < d2(m) \/ (d2(j) = d2(m) /\ j <= m)
        IN  IF i >= chains \/ cand = {} THEN v
            ELSE hop(phase(damageEnemy_fr(v, best, d, rnd),
                           [to |-> best, reach |-> 110,
                            dealt |-> (d * (100 - v.state.enemies[best].armor)) \div 100]),
                     best, (d * 75) \div 100, i + 1)
  IN  hop(w, origin, dmg, 0)

Init_frc ==
  \E x2 \in {60, 110} : \E x3 \in {120, 169, 300} : \E armor \in [1..3 -> {0, 20}] :
    /\ state = [mode |-> "play", score |-> 0, money |-> 0, pickups |-> <<>>, msg |-> "",
                bossAlive |-> FALSE, shot |-> [dmg |-> 0, chain |-> 0],
                enemies |-> [i \in 1..3 |->
                  [kind |-> IF armor[i] = 20 THEN "brute" ELSE "runner",
                   hp |-> (IF armor[i] = 20 THEN 72 ELSE 32) * 10000, alive |-> TRUE,
                   touch |-> 0, score |-> 25, elite |-> FALSE, armor |-> armor[i],
                   x |-> <<0, x2, x3>>[i]]]]
    /\ player = [hp |-> 100, hpMax |-> 100, lifeSteal |-> 0]
    /\ WEAPONS = <<>>
    /\ ev = [Declared.ev EXCEPT !.loot = <<0, 0, 0>>]

\* update(dt): a player bullet of 11 points with chain c meets the live
\* enemy at index e.
Hit_frc ==
  \E e \in 1..3 : \E c \in 0..MaxChain_frc :
    /\ state.mode = "play"
    /\ state.enemies[e].alive
    /\ ev.moves < MaxHits_frc
    /\ \E v \in {damageEnemy_fr([evReset(World, "hit") EXCEPT !.state.shot = [dmg |-> 11, chain |-> c],
                                                              !.ev.moves = @ + 1],
                                e, 11 * 10000, [money |-> 2, coin |-> FALSE])} :
         \E w \in {IF c > 0 THEN chainShock_frc(v, e, 11 * 5500, c, [money |-> 2, coin |-> FALSE])
                   ELSE v} :
           Becomes(w)

Next_frc == Hit_frc

Spec_frc == Init_frc /\ [][Next_frc]_vars

\* C39: a hit with chain = c makes at most c hops, and each hop after the
\* first deals less damage and was tested against a shorter reach than the
\* hop before it.
C39_HopsWeaken ==
  ev.op = "hit"
    => /\ Len(ev.phase) <= state.shot.chain
       /\ \A k \in 2..Len(ev.phase) :
            /\ ev.phase[k].dealt < ev.phase[k - 1].dealt
            /\ ev.phase[k].reach < ev.phase[k - 1].reach

\* At most c hops, each dealing less than the hop before it.
HopsDealLess_frc ==
  ev.op = "hit"
    => /\ Len(ev.phase) <= state.shot.chain
       /\ \A k \in 2..Len(ev.phase) : ev.phase[k].dealt < ev.phase[k - 1].dealt

\* Three hops were made, the second of them over 109 px.
ThreeHops_frc ==
  /\ ev.op = "hit" /\ Len(ev.phase) = 3
  /\ state.enemies[2].x = 60 /\ state.enemies[3].x = 169 /\ ev.phase[2].to = 3

(***************************************************************************)
(* n.mjs: the weapons.  The player stands at the counter of the shop south *)
(* of the start room with coins in hand and presses keys; a boss's reward  *)
(* may unlock a weapon.                                                    *)
(***************************************************************************)

\* Coins the player may have brought to the shop.
Coins_w == {0, 30, 60}

Init_w ==
  \E coins \in Coins_w :
    \E w \in {loadRoom_mjs([resetGame_mjs(Declared, NoRnd) EXCEPT !.state.roomId = <<0, 1>>],
                           <<0, 1>>, NoRnd)} :
      /\ state = [w.state EXCEPT !.coins = coins]
      /\ player = [w.player EXCEPT !.x = G_mjs.ROOM_W \div 2, !.y = (G_mjs.TILE * 27) \div 10]
      /\ WEAPONS = w.WEAPONS
      /\ ev = [w.ev EXCEPT !.op = "init"]

\* One frame: update(dt) with one key pressed and the player standing still.
Update_w ==
  \E key \in PressKeys_mjs(World) \ {"none"} :
    \E in \in {[key |-> key, move |-> "none", mouse |-> FALSE, dash |-> FALSE]} :
      \E rnd \in Rnds(G_mjs, World, in, fullHp_mjs(World)) :
        \E w \in {update_mjs(World, in, rnd)} : Becomes(w)

\* The reward of a boss: unlockRandomWeapon() with its draw.
Unlock_w ==
  \E k \in 0..5 :
    /\ k < Cardinality({i \in 1..Len(WEAPONS) : ~WEAPONS[i]})
    /\ ~state.paused
    /\ \E w \in {unlockRandomWeapon_mjs(evReset(World, "unlock"), [unlock |-> k])} : Becomes(w)

Next_w == Update_w \/ Unlock_w

Spec_w == Init_w /\ [][Next_w]_vars

\* C40: the weapon in the player's hand is unlocked and so is the pistol,
\* whatever keys were pressed, whatever was bought or unlocked in an armory
\* and however often the run was reset.
C40_HeldWeaponUnlocked ==
  /\ player.weapon \in 0..(Len(WEAPONS) - 1)
  /\ WEAPONS[player.weapon + 1]
  /\ WEAPONS[1]

\* The player has cycled past a locked weapon to one further on.
C40_CycledPastLocked ==
  /\ player.weapon >= 2
  /\ \E i \in 2..player.weapon : ~WEAPONS[i]

====
